---- MODULE Spec2Model ----
(***************************************************************************)
(* MGNREGA Saathi: the fetch-then-backfill protocol of getDistrictData and *)
(* the transactional bulk ingestion of processAndStoreDataBulk.            *)
(*                                                                         *)
(* Conventions of the model                                                *)
(*  - A JavaScript string is the sequence of its UTF-16 code units, so     *)
(*    that toUpperCase, substring, hashCode, parseInt and LIKE are         *)
(*    computed and not assumed.  The empty sequence also stands for a      *)
(*    missing value (undefined, null, ''): all three are falsy.            *)
(*  - A nullable object (a row found by findOne) is a set with at most     *)
(*    one element.                                                         *)
(*  - DECIMAL(n,2) columns hold hundredths; parseFloat yields thousandths. *)
(*  - The tables obey the schema the models declare: primary and unique    *)
(*    keys, foreign keys (references), NOT NULL, column widths, compared   *)
(*    under the case-insensitive collation the connection defines.         *)
(*  - A transaction takes the write lock when it begins, so transactions   *)
(*    run one after the other; its statements act on a private copy that   *)
(*    the commit installs.  Any statement, the commit and any read may     *)
(*    throw.  Ids handed out by a transaction that rolls back are spent.   *)
(*  - updated_at is the number of the committing transaction.              *)
(*  - bulkCreate with returning: true yields, for each record given, the   *)
(*    row stored under its key.                                            *)
(*  - The upstream applies the filters it is given but is otherwise free:  *)
(*    a call throws, answers without records, or answers with a list of    *)
(*    the matching records.  A cached answer (TTL 3600 s) outlives the     *)
(*    requests modelled.                                                   *)
(*  - upstream is the list of records the upstream holds and asked the     *)
(*    set of queries clients send; neither changes.  Init has one month    *)
(*    of each district; InitMonths adds a second month of a district and   *)
(*    a client that asks for a fallback period.                            *)
(*    InitFirstSight holds two districts of one state and period.          *)
(*    InitAnswers adds a client that sends no finYear.                     *)
(*  - The direct caller calls processAndStoreDataBulk, fetchDistrictData,  *)
(*    compareDistricts, generateDistrictCode and getPerformanceGrade       *)
(*    themselves, with batches and arguments drawn from the universes      *)
(*    named below.                                                         *)
(*  - A handler awaits one call at a time; a step of the model is the      *)
(*    return or the throw of the awaited call.  That a request is answered *)
(*    is shown by a measure of its place in the handler that every step    *)
(*    increases and that is bounded.                                       *)
(***************************************************************************)
EXTENDS Integers, Sequences, FiniteSets, TLC

VARIABLES db, autoInc, clock, tx, cache, caller, req, upstream, asked

vars == <<db, autoInc, clock, tx, cache, caller, req, upstream, asked>>

----------------------------------------------------------------------------
(* JavaScript strings *)

Truthy(s) == s # <<>>

Min(a, b) == IF a < b THEN a ELSE b

toUpperCase(s) ==
  [i \in 1..Len(s) |-> IF s[i] \in 97..122 THEN s[i] - 32 ELSE s[i]]

\* str.substring(0, n)
substring(s, n) == SubSeq(s, 1, Min(n, Len(s)))

\* str.includes(ch) for a one-character needle
includes(s, ch) == \E i \in 1..Len(s) : s[i] = ch

IsDigit(c) == c \in 48..57

IsSpace(c) == c \in {9, 10, 11, 12, 13, 32}

\* equality of two strings in a column of collation utf8mb4_unicode_ci
CiEq(a, b) == toUpperCase(a) = toUpperCase(b)

RECURSIVE LikeFrom(_, _, _, _)
LikeFrom(p, i, s, j) ==
  IF i > Len(p) THEN j > Len(s)
  ELSE IF p[i] = 37
       THEN \E k \in j..(Len(s) + 1) : LikeFrom(p, i + 1, s, k)
       ELSE /\ j <= Len(s)
            /\ \/ p[i] = 95
               \/ CiEq(<<p[i]>>, <<s[j]>>)
            /\ LikeFrom(p, i + 1, s, j + 1)

\* column LIKE pattern: % is any run, _ any one character
Like(s, p) == LikeFrom(p, 1, s, 1)

\* lexicographic order of two strings under the collation
RECURSIVE CiLess(_, _)
CiLess(a, b) ==
  IF b = <<>> THEN FALSE
  ELSE IF a = <<>> THEN TRUE
  ELSE LET x == toUpperCase(<<a[1]>>)[1]
           y == toUpperCase(<<b[1]>>)[1]
       IN IF x # y THEN x < y ELSE CiLess(Tail(a), Tail(b))

----------------------------------------------------------------------------
(* Literals of the program *)

strXX == <<88,88>>
strUNKNOWN == <<85,78,75,78,79,87,78>>
strAll == <<97,108,108>>
strMgnrega == <<109,103,110,114,101,103,97>>
fallbackYears ==
  << <<50,48,50,51,45,50,48,50,52>>,
     <<50,48,50,50,45,50,48,50,51>>,
     <<50,48,50,49,45,50,48,50,50>> >>

stateCodeMap ==
  {
    <<<<65,78,68,72,82,65,32,80,82,65,68,69,83,72>>, <<65,80>>>>,
    <<<<65,82,85,78,65,67,72,65,76,32,80,82,65,68,69,83,72>>, <<65,82>>>>,
    <<<<65,83,83,65,77>>, <<65,83>>>>,
    <<<<66,73,72,65,82>>, <<66,82>>>>,
    <<<<67,72,72,65,84,84,73,83,71,65,82,72>>, <<67,71>>>>,
    <<<<71,79,65>>, <<71,65>>>>,
    <<<<71,85,74,65,82,65,84>>, <<71,74>>>>,
    <<<<72,65,82,89,65,78,65>>, <<72,82>>>>,
    <<<<72,73,77,65,67,72,65,76,32,80,82,65,68,69,83,72>>, <<72,80>>>>,
    <<<<74,72,65,82,75,72,65,78,68>>, <<74,72>>>>,
    <<<<75,65,82,78,65,84,65,75,65>>, <<75,65>>>>,
    <<<<75,69,82,65,76,65>>, <<75,76>>>>,
    <<<<77,65,68,72,89,65,32,80,82,65,68,69,83,72>>, <<77,80>>>>,
    <<<<77,65,72,65,82,65,83,72,84,82,65>>, <<77,72>>>>,
    <<<<77,65,78,73,80,85,82>>, <<77,78>>>>,
    <<<<77,69,71,72,65,76,65,89,65>>, <<77,76>>>>,
    <<<<77,73,90,79,82,65,77>>, <<77,90>>>>,
    <<<<78,65,71,65,76,65,78,68>>, <<78,76>>>>,
    <<<<79,68,73,83,72,65>>, <<79,82>>>>,
    <<<<80,85,78,74,65,66>>, <<80,66>>>>,
    <<<<82,65,74,65,83,84,72,65,78>>, <<82,74>>>>,
    <<<<83,73,75,75,73,77>>, <<83,75>>>>,
    <<<<84,65,77,73,76,32,78,65,68,85>>, <<84,78>>>>,
    <<<<84,69,76,65,78,71,65,78,65>>, <<84,71>>>>,
    <<<<84,82,73,80,85,82,65>>, <<84,82>>>>,
    <<<<85,84,84,65,82,32,80,82,65,68,69,83,72>>, <<85,80>>>>,
    <<<<85,84,84,65,82,65,75,72,65,78,68>>, <<85,75>>>>,
    <<<<87,69,83,84,32,66,69,78,71,65,76>>, <<87,66>>>>
  }

----------------------------------------------------------------------------
(* DataProcessingService: code derivation and parsing *)

generateStateCode(stateName) ==
  IF ~Truthy(stateName) THEN strXX
  ELSE IF \E e \in stateCodeMap : e[1] = toUpperCase(stateName)
       THEN (CHOOSE e \in stateCodeMap : e[1] = toUpperCase(stateName))[2]
       ELSE toUpperCase(substring(stateName, 2))

\* hashCode keeps a 32-bit signed integer; it is held here as its two
\* 16-bit halves [hi, lo] of the unsigned value, so that hash*31 + char
\* wraps modulo 2^32 as ((hash << 5) - hash) + char followed by
\* hash & hash does.
RECURSIVE hashFrom(_, _, _)
hashFrom(str, i, h) ==
  IF i > Len(str) THEN h
  ELSE LET low  == 31 * h.lo + str[i]
           high == 31 * h.hi + (low \div 65536)
       IN hashFrom(str, i + 1, [hi |-> high % 65536, lo |-> low % 65536])

hashCode(str) == hashFrom(str, 1, [hi |-> 0, lo |-> 0])

\* variant: Math.abs on a 32-bit integer, which leaves the minimum as it is
absMod1000Wrapped(h) ==
  IF h.hi = 32768 /\ h.lo = 0 THEN 0 - 648
  ELSE IF h.hi >= 32768
  THEN (((65535 - h.hi) % 1000) * 536 + (65536 - h.lo)) % 1000
  ELSE ((h.hi % 1000) * 536 + h.lo) % 1000

\* Math.abs(hash) % 1000 of the 32-bit signed value held in h
absMod1000(h) ==
  IF h.hi >= 32768
  THEN (((65535 - h.hi) % 1000) * 536 + (65536 - h.lo)) % 1000
  ELSE ((h.hi % 1000) * 536 + h.lo) % 1000

\* n.toString().padStart(3, '0') for 0 <= n <= 999
padStart3(n) == <<48 + (n \div 100), 48 + ((n \div 10) % 10), 48 + (n % 10)>>

\* variant: the hash is seeded with the time of the call
generateDistrictCodeSeeded(districtName, stateCode) ==
  IF ~Truthy(districtName) \/ ~Truthy(stateCode) THEN strUNKNOWN
  ELSE stateCode \o toUpperCase(substring(districtName, 3))
                 \o padStart3((absMod1000(hashCode(districtName)) + clock) % 1000)

generateDistrictCode(districtName, stateCode) ==
  IF ~Truthy(districtName) \/ ~Truthy(stateCode) THEN strUNKNOWN
  ELSE stateCode \o toUpperCase(substring(districtName, 3))
                 \o padStart3(absMod1000(hashCode(districtName)))

RECURSIVE skipSpace(_, _)
skipSpace(s, i) ==
  IF i <= Len(s) /\ IsSpace(s[i]) THEN skipSpace(s, i + 1) ELSE i

RECURSIVE digitsEnd(_, _)
digitsEnd(s, i) ==
  IF i <= Len(s) /\ IsDigit(s[i]) THEN digitsEnd(s, i + 1) ELSE i

RECURSIVE digitsValue(_, _, _, _)
digitsValue(s, i, j, acc) ==
  IF i >= j THEN acc ELSE digitsValue(s, i + 1, j, 10 * acc + (s[i] - 48))

signAt(s, i) == IF i <= Len(s) /\ s[i] = 45 THEN -1 ELSE 1

afterSign(s, i) == IF i <= Len(s) /\ s[i] \in {43, 45} THEN i + 1 ELSE i

\* parseInt(s): [nan, val]; val is the integer read (decimal digits only)
parseInt(s) ==
  LET b == skipSpace(s, 1)
      d == afterSign(s, b)
      e == digitsEnd(s, d)
  IN IF e = d THEN [nan |-> TRUE, val |-> 0]
     ELSE [nan |-> FALSE, val |-> signAt(s, b) * digitsValue(s, d, e, 0)]

\* parseFloat(s): [nan, val]; val is the number read, in thousandths
\* (digits, at most three of the fraction; no exponent)
parseFloat(s) ==
  LET b  == skipSpace(s, 1)
      d  == afterSign(s, b)
      e  == digitsEnd(s, d)
      f  == IF e <= Len(s) /\ s[e] = 46 THEN e + 1 ELSE e
      g  == IF f > e THEN digitsEnd(s, f) ELSE e
      g3 == Min(g, f + 3)
      whole == digitsValue(s, d, e, 0)
      frac  == digitsValue(s, f, g3, 0)
      scale == IF g3 - f = 0 THEN 1000
               ELSE IF g3 - f = 1 THEN 100
               ELSE IF g3 - f = 2 THEN 10 ELSE 1
  IN IF e = d /\ g = f THEN [nan |-> TRUE, val |-> 0]
     ELSE [nan |-> FALSE,
           val |-> signAt(s, b) * (1000 * whole + (IF f > e THEN frac * scale ELSE 0))]

\* variant: parseInt(x) without "|| 0"; NaN is held as -1, which the
\* digits of no record read as
intOrNaN(s) == LET n == parseInt(s) IN IF n.nan THEN 0 - 1 ELSE n.val

\* parseInt(x) || 0
intOrZero(s) == LET n == parseInt(s) IN IF n.nan THEN 0 ELSE n.val

\* parseFloat(x) || 0, as stored in a DECIMAL(n,2) column: hundredths,
\* rounded half away from zero
decimalOrZero(s) ==
  LET n == parseFloat(s)
      v == IF n.nan THEN 0 ELSE n.val
  IN IF v >= 0 THEN (v + 5) \div 10 ELSE -((5 - v) \div 10)

----------------------------------------------------------------------------
(* DataProcessingService: what a batch of upstream records refers to *)

\* new Date().getFullYear()
CurrentYear == 2026

\* the positions of the first occurrence of each key, in order (a Map
\* filled with "if (!map.has(key)) map.set(key, ...)")
firstOccurrences(keys) ==
  SelectSeq([i \in 1..Len(keys) |-> i],
            LAMBDA i : \A j \in 1..(i - 1) : keys[j] # keys[i])

\* record.state_code || this.generateStateCode(record.state_name)
stateCodeOf(record) ==
  IF Truthy(record.state_code) THEN record.state_code
  ELSE generateStateCode(record.state_name)

\* record.district_code || this.generateDistrictCode(record.district_name, stateCode)
districtCodeOf(record) ==
  IF Truthy(record.district_code) THEN record.district_code
  ELSE generateDistrictCode(record.district_name, stateCodeOf(record))

extractUniqueStates(apiData) ==
  LET keys == [i \in 1..Len(apiData) |-> toUpperCase(apiData[i].state_name)]
      idx  == firstOccurrences(keys)
  IN [k \in 1..Len(idx) |->
        [stateCode |-> stateCodeOf(apiData[idx[k]]),
         stateName |-> keys[idx[k]]]]

extractUniqueDistricts(apiData) ==
  LET keys == [i \in 1..Len(apiData) |-> districtCodeOf(apiData[i])]
      idx  == firstOccurrences(keys)
  IN [k \in 1..Len(idx) |->
        [districtCode |-> keys[idx[k]],
         districtName |-> toUpperCase(apiData[idx[k]].district_name),
         stateCode    |-> stateCodeOf(apiData[idx[k]])]]

\* finYear.split('-'): the part before the first '-' and the part after it
\* up to the next '-'
RECURSIVE indexOfDash(_, _)
indexOfDash(s, i) ==
  IF i > Len(s) \/ s[i] = 45 THEN i ELSE indexOfDash(s, i + 1)

parseFinancialYear(finYear) ==
  IF ~Truthy(finYear) \/ ~includes(finYear, 45)
  THEN [startYear |-> [nan |-> FALSE, val |-> CurrentYear],
        endYear   |-> [nan |-> FALSE, val |-> CurrentYear + 1]]
  ELSE LET a == indexOfDash(finYear, 1)
           b == indexOfDash(finYear, a + 1)
       IN [startYear |-> parseInt(SubSeq(finYear, 1, a - 1)),
           endYear   |-> parseInt(SubSeq(finYear, a + 1, b - 1))]

extractUniqueFinYears(apiData) ==
  LET keys == [i \in 1..Len(apiData) |-> apiData[i].fin_year]
      idx  == firstOccurrences(keys)
  IN [k \in 1..Len(idx) |->
        [finYear   |-> keys[idx[k]],
         startYear |-> parseFinancialYear(keys[idx[k]]).startYear,
         endYear   |-> parseFinancialYear(keys[idx[k]]).endYear]]

\* month: record.month?.toUpperCase() || null; null is the empty sequence
preparePerformanceRecords(apiData) ==
  [i \in 1..Len(apiData) |->
    LET record == apiData[i] IN
    [districtCode           |-> districtCodeOf(record),
     finYear                |-> record.fin_year,
     month                  |-> toUpperCase(record.month),
     approvedLabourBudget   |-> intOrZero(record.Approved_Labour_Budget),
     averageWageRate        |-> decimalOrZero(record.Average_Wage_rate_per_day_per_person),
     averageDaysEmployment  |-> decimalOrZero(record.Average_days_of_employment_provided_per_Household),
     totalHouseholdsWorked  |-> intOrZero(record.Total_Households_Worked),
     totalIndividualsWorked |-> intOrZero(record.Total_Individuals_Worked),
     completedWorks         |-> intOrZero(record.Number_of_Completed_Works),
     ongoingWorks           |-> intOrZero(record.Number_of_Ongoing_Works),
     womenPersondays        |-> decimalOrZero(record.Women_Persondays),
     scPersondays           |-> intOrZero(record.SC_persondays),
     stPersondays           |-> intOrZero(record.ST_persondays),
     totalExpenditure       |-> intOrZero(record.Total_Exp),
     wages                  |-> intOrZero(record.Wages),
     households100Days      |-> intOrZero(record.Total_No_of_HHs_completed_100_Days_of_Wage_Employment),
     paymentWithin15Days    |-> decimalOrZero(record.percentage_payments_gererated_within_15_days)]]

----------------------------------------------------------------------------
(* DataProcessingService: the derived metrics of a performance row.  The   *)
(* DECIMAL(n,2) fields of a row are held in hundredths.  The sum is         *)
(* computed exactly, as a fraction, where the code adds doubles.            *)

\* Math.round of num/den (den > 0): the nearest integer, halves upwards
round(num, den) == (2 * num + den) \div (2 * den)

\* calculatePerformanceScore(district): in two-thousandths per work,
\*   min(days/100*30, 30)          = min(6*days_h, 60000) / 2000
\*   payment/100*25                = 5*payment_h / 2000
\*   min(women/50*20, 20)          = min(8*women_h, 40000) / 2000
\*   completed/totalWorks*25       = 25*completed / totalWorks
calculatePerformanceScore(district) ==
  LET totalWorks == district.completedWorks + district.ongoingWorks
      works == IF totalWorks > 0 THEN totalWorks ELSE 1
      capped == Min(6 * district.averageDaysEmployment, 60000)
                + 5 * district.paymentWithin15Days
                + Min(8 * district.womenPersondays, 40000)
      rate == IF totalWorks > 0 THEN 25 * district.completedWorks * 2000 ELSE 0
  IN round(capped * works + rate, 2000 * works)

\* variant: each threshold is passed only by a score above it
getPerformanceGradeAbove(district) ==
  LET score == calculatePerformanceScore(district)
  IN IF score > 80 THEN <<65>>
     ELSE IF score > 60 THEN <<66>>
     ELSE IF score > 40 THEN <<67>>
     ELSE IF score > 20 THEN <<68>>
     ELSE <<69>>

\* getPerformanceGrade(district): the grade letter of the score
getPerformanceGrade(district) ==
  LET score == calculatePerformanceScore(district)
  IN IF score >= 80 THEN <<65>>
     ELSE IF score >= 60 THEN <<66>>
     ELSE IF score >= 40 THEN <<67>>
     ELSE IF score >= 20 THEN <<68>>
     ELSE <<69>>

----------------------------------------------------------------------------
(* The tables.  db is [states, districts, finYears, perfs, exts], each a   *)
(* set of rows.  A statement yields [ok, db]: ok is FALSE when the schema  *)
(* rejects a row, and the statement then throws.                           *)

emptyDb ==
  [states |-> {}, districts |-> {}, finYears |-> {}, perfs |-> {}, exts |-> {}]

\* State: stateCode STRING(10) primary key, stateName STRING(100) unique.
\* INSERT ... ON DUPLICATE KEY UPDATE state_name = VALUES(state_name)
stateUpsertRow(tbl, rec) ==
  LET pk  == {x \in tbl : CiEq(x.stateCode, rec.stateCode)}
      uk  == {x \in tbl : CiEq(x.stateName, rec.stateName)}
      hit == IF pk # {} THEN pk ELSE uk
  IN IF Len(rec.stateCode) > 10 \/ Len(rec.stateName) > 100
     THEN [ok |-> FALSE, tbl |-> tbl]
     ELSE IF hit = {} THEN [ok |-> TRUE, tbl |-> tbl \cup {rec}]
     ELSE LET old == CHOOSE x \in hit : TRUE
              new == [old EXCEPT !.stateName = rec.stateName]
          IN IF \E y \in tbl \ {old} : CiEq(y.stateName, new.stateName)
             THEN [ok |-> FALSE, tbl |-> tbl]
             ELSE [ok |-> TRUE, tbl |-> (tbl \ {old}) \cup {new}]

RECURSIVE stateBulkCreate(_, _, _)
stateBulkCreate(tbl, rows, i) ==
  IF i > Len(rows) THEN [ok |-> TRUE, tbl |-> tbl]
  ELSE LET r == stateUpsertRow(tbl, rows[i])
       IN IF r.ok THEN stateBulkCreate(r.tbl, rows, i + 1) ELSE r

bulkUpsertStates(d, states) ==
  IF Len(states) = 0 THEN [ok |-> TRUE, db |-> d]
  ELSE LET r == stateBulkCreate(d.states, states, 1)
       IN [ok |-> r.ok, db |-> [d EXCEPT !.states = r.tbl]]

\* variant: districts.state_code without its foreign key
stateNotReferenced(d, stateCode) == TRUE

\* the foreign key districts.state_code -> states.state_code
stateExists(d, stateCode) == \E x \in d.states : CiEq(x.stateCode, stateCode)

\* District: districtCode STRING(20) primary key, stateCode references states.
\* ON DUPLICATE KEY UPDATE district_name, state_code
districtUpsertRow(d, tbl, rec) ==
  LET pk == {x \in tbl : CiEq(x.districtCode, rec.districtCode)}
  IN IF \/ Len(rec.districtCode) > 20
        \/ Len(rec.districtName) > 100
        \/ Len(rec.stateCode) > 10
        \/ ~stateExists(d, rec.stateCode)
     THEN [ok |-> FALSE, tbl |-> tbl]
     ELSE IF pk = {} THEN [ok |-> TRUE, tbl |-> tbl \cup {rec}]
     ELSE LET old == CHOOSE x \in pk : TRUE
              new == [old EXCEPT !.districtName = rec.districtName,
                                 !.stateCode = rec.stateCode]
          IN [ok |-> TRUE, tbl |-> (tbl \ {old}) \cup {new}]

RECURSIVE districtBulkCreate(_, _, _, _)
districtBulkCreate(d, tbl, rows, i) ==
  IF i > Len(rows) THEN [ok |-> TRUE, tbl |-> tbl]
  ELSE LET r == districtUpsertRow(d, tbl, rows[i])
       IN IF r.ok THEN districtBulkCreate(d, r.tbl, rows, i + 1) ELSE r

bulkUpsertDistricts(d, districts) ==
  IF Len(districts) = 0 THEN [ok |-> TRUE, db |-> d]
  ELSE LET r == districtBulkCreate(d, d.districts, districts, 1)
       IN [ok |-> r.ok, db |-> [d EXCEPT !.districts = r.tbl]]

\* FinancialYear: finYear STRING(10) primary key, startYear and endYear
\* INTEGER NOT NULL (NaN is no integer).
\* ON DUPLICATE KEY UPDATE start_year, end_year
finYearUpsertRow(tbl, rec) ==
  LET pk == {x \in tbl : CiEq(x.finYear, rec.finYear)}
      row == [finYear   |-> rec.finYear,
              startYear |-> rec.startYear.val,
              endYear   |-> rec.endYear.val]
  IN IF Len(rec.finYear) > 10 \/ rec.startYear.nan \/ rec.endYear.nan
     THEN [ok |-> FALSE, tbl |-> tbl]
     ELSE IF pk = {} THEN [ok |-> TRUE, tbl |-> tbl \cup {row}]
     ELSE LET old == CHOOSE x \in pk : TRUE
              new == [old EXCEPT !.startYear = row.startYear,
                                 !.endYear = row.endYear]
          IN [ok |-> TRUE, tbl |-> (tbl \ {old}) \cup {new}]

RECURSIVE finYearBulkCreate(_, _, _)
finYearBulkCreate(tbl, rows, i) ==
  IF i > Len(rows) THEN [ok |-> TRUE, tbl |-> tbl]
  ELSE LET r == finYearUpsertRow(tbl, rows[i])
       IN IF r.ok THEN finYearBulkCreate(r.tbl, rows, i + 1) ELSE r

bulkUpsertFinancialYears(d, finYears) ==
  IF Len(finYears) = 0 THEN [ok |-> TRUE, db |-> d]
  ELSE LET r == finYearBulkCreate(d.finYears, finYears, 1)
       IN [ok |-> r.ok, db |-> [d EXCEPT !.finYears = r.tbl]]

\* the columns bulkUpsertPerformance lists in updateOnDuplicate
updateOnDuplicate ==
  {"approvedLabourBudget", "averageWageRate", "averageDaysEmployment",
   "totalHouseholdsWorked", "totalIndividualsWorked", "completedWorks",
   "ongoingWorks", "womenPersondays", "scPersondays", "stPersondays",
   "totalExpenditure", "wages", "households100Days", "paymentWithin15Days"}

\* the unique index uk_district_year_month
sameNaturalKey(x, rec) ==
  /\ CiEq(x.districtCode, rec.districtCode)
  /\ CiEq(x.finYear, rec.finYear)
  /\ CiEq(x.month, rec.month)

\* variant: district_performance without uk_district_year_month, every
\* record is appended
performanceAppendRow(d, tbl, rec, id, now) ==
  IF \/ ~Truthy(rec.month)
     \/ ~\E x \in d.districts : CiEq(x.districtCode, rec.districtCode)
     \/ ~\E x \in d.finYears : CiEq(x.finYear, rec.finYear)
  THEN [ok |-> FALSE, tbl |-> tbl, id |-> id]
  ELSE [ok  |-> TRUE,
        tbl |-> tbl \cup {rec @@ [id |-> id, performanceScore |-> 0,
                                  performanceGrade |-> <<>>, updated_at |-> now]},
        id  |-> id + 1]

\* variant: REPLACE INTO, a record whose key is taken removes the stored
\* row and is inserted under a new id
performanceReplaceRow(d, tbl, rec, id, now) ==
  LET uk == {x \in tbl : sameNaturalKey(x, rec)}
  IN IF \/ ~Truthy(rec.month)
        \/ ~\E x \in d.districts : CiEq(x.districtCode, rec.districtCode)
        \/ ~\E x \in d.finYears : CiEq(x.finYear, rec.finYear)
     THEN [ok |-> FALSE, tbl |-> tbl, id |-> id]
     ELSE [ok  |-> TRUE,
           tbl |-> (tbl \ uk) \cup {rec @@ [id |-> id, performanceScore |-> 0,
                                             performanceGrade |-> <<>>, updated_at |-> now]},
           id  |-> id + 1]

\* DistrictPerformance: id auto-increment, districtCode references
\* districts, finYear references financial_years, month NOT NULL,
\* performanceScore defaults to 0, performanceGrade to NULL.
\* ON DUPLICATE KEY UPDATE the listed columns and updated_at.
performanceUpsertRow(d, tbl, rec, id, now) ==
  LET uk == {x \in tbl : sameNaturalKey(x, rec)}
  IN IF \/ ~Truthy(rec.month)
        \/ Len(rec.month) > 20 \/ Len(rec.finYear) > 10 \/ Len(rec.districtCode) > 20
        \/ ~\E x \in d.districts : CiEq(x.districtCode, rec.districtCode)
        \/ ~\E x \in d.finYears : CiEq(x.finYear, rec.finYear)
     THEN [ok |-> FALSE, tbl |-> tbl, id |-> id]
     ELSE IF uk = {}
     THEN [ok  |-> TRUE,
           tbl |-> tbl \cup {rec @@ [id |-> id, performanceScore |-> 0,
                                     performanceGrade |-> <<>>, updated_at |-> now]},
           id  |-> id + 1]
     ELSE LET old == CHOOSE x \in uk : TRUE
              new == [f \in DOMAIN old |->
                        IF f \in updateOnDuplicate THEN rec[f]
                        ELSE IF f = "updated_at" THEN now ELSE old[f]]
          IN [ok |-> TRUE, tbl |-> (tbl \ {old}) \cup {new}, id |-> id]

RECURSIVE performanceBulkCreate(_, _, _, _, _, _)
performanceBulkCreate(d, tbl, rows, i, id, now) ==
  IF i > Len(rows) THEN [ok |-> TRUE, tbl |-> tbl, id |-> id]
  ELSE LET r == performanceUpsertRow(d, tbl, rows[i], id, now)
       IN IF r.ok THEN performanceBulkCreate(d, r.tbl, rows, i + 1, r.id, now) ELSE r

\* [ok, db, id, result]: result is what bulkCreate returns with
\* returning: true, the stored row of each record given
bulkUpsertPerformance(d, performanceRecords, id, now) ==
  IF Len(performanceRecords) = 0
  THEN [ok |-> TRUE, db |-> d, id |-> id, result |-> <<>>]
  ELSE LET r == performanceBulkCreate(d, d.perfs, performanceRecords, 1, id, now)
       IN [ok     |-> r.ok,
           db     |-> [d EXCEPT !.perfs = r.tbl],
           id     |-> r.id,
           result |-> IF r.ok
                      THEN [i \in 1..Len(performanceRecords) |->
                              CHOOSE x \in r.tbl : sameNaturalKey(x, performanceRecords[i])]
                      ELSE <<>>]

\* variant: district_extended_metrics without the unique performance_id
extendedAppendRow(d, tbl, rec, id) ==
  IF ~\E x \in d.perfs : x.id = rec.performanceId
  THEN [tbl |-> tbl, id |-> id]
  ELSE [tbl |-> tbl \cup {rec @@ [id |-> id]}, id |-> id + 1]

\* variant: REPLACE INTO, a record whose performanceId is taken removes the
\* stored row and is inserted under a new id
extendedReplaceRow(d, tbl, rec, id) ==
  IF ~\E x \in d.perfs : x.id = rec.performanceId
  THEN [tbl |-> tbl, id |-> id]
  ELSE [tbl |-> {x \in tbl : x.performanceId # rec.performanceId} \cup {rec @@ [id |-> id]},
        id  |-> id + 1]

\* DistrictExtendedMetrics: id auto-increment, performanceId unique and
\* references district_performance.  INSERT IGNORE skips a row whose
\* performanceId is taken or refers to no row.
extendedInsertRow(d, tbl, rec, id) ==
  IF \/ \E x \in tbl : x.performanceId = rec.performanceId
     \/ ~\E x \in d.perfs : x.id = rec.performanceId
  THEN [tbl |-> tbl, id |-> id]
  ELSE [tbl |-> tbl \cup {rec @@ [id |-> id]}, id |-> id + 1]

RECURSIVE extendedBulkCreate(_, _, _, _, _)
extendedBulkCreate(d, tbl, rows, i, id) ==
  IF i > Len(rows) THEN [tbl |-> tbl, id |-> id]
  ELSE LET r == extendedInsertRow(d, tbl, rows[i], id)
       IN extendedBulkCreate(d, r.tbl, rows, i + 1, r.id)

extendedMetricsRecord(perf) ==
  [performanceId              |-> perf.id,
   totalWorkers               |-> 0,
   totalActiveWorkers         |-> 0,
   totalJobcardsIssued        |-> 0,
   totalActiveJobcards        |-> 0,
   scWorkersActive            |-> 0,
   stWorkersActive            |-> 0,
   differentlyAbledWorked     |-> 0,
   percentNrmExpenditure      |-> 0,
   percentCategoryBWorks      |-> 0,
   percentAgricultureAllied   |-> 0,
   totalAdminExpenditure      |-> 0,
   materialSkilledWages       |-> 0,
   persondaysCentralLiability |-> 0,
   totalWorksTakenup          |-> 0,
   gpsWithNilExp              |-> 0]

\* variant: an extended row for the first of the performances only
bulkUpsertExtendedMetricsFirst(d, performances, id) ==
  IF Len(performances) = 0 THEN [ok |-> TRUE, db |-> d, id |-> id]
  ELSE LET rows == <<extendedMetricsRecord(performances[1])>>
           r    == extendedBulkCreate(d, d.exts, rows, 1, id)
       IN [ok |-> TRUE, db |-> [d EXCEPT !.exts = r.tbl], id |-> r.id]

\* [ok, db, id]
bulkUpsertExtendedMetrics(d, performances, id) ==
  IF Len(performances) = 0 THEN [ok |-> TRUE, db |-> d, id |-> id]
  ELSE LET rows == [i \in 1..Len(performances) |-> extendedMetricsRecord(performances[i])]
           r    == extendedBulkCreate(d, d.exts, rows, 1, id)
       IN [ok |-> TRUE, db |-> [d EXCEPT !.exts = r.tbl], id |-> r.id]

----------------------------------------------------------------------------
(* Bounds and inputs *)

\* records in one upstream answer or one ingested batch
MaxBatch == 2

\* calls of processAndStoreDataBulk made by the direct caller
MaxIngests == 3

\* the request handlers running at once
Reqs == {1, 2}

\* an upstream record with every metric absent
blankRecord ==
  [state_name |-> <<>>, state_code |-> <<>>, district_name |-> <<>>,
   district_code |-> <<>>, fin_year |-> <<>>, month |-> <<>>,
   Approved_Labour_Budget |-> <<>>,
   Average_Wage_rate_per_day_per_person |-> <<>>,
   Average_days_of_employment_provided_per_Household |-> <<>>,
   Total_Households_Worked |-> <<>>,
   Total_Individuals_Worked |-> <<>>,
   Number_of_Completed_Works |-> <<>>,
   Number_of_Ongoing_Works |-> <<>>,
   Women_Persondays |-> <<>>,
   SC_persondays |-> <<>>,
   ST_persondays |-> <<>>,
   Total_Exp |-> <<>>,
   Wages |-> <<>>,
   Total_No_of_HHs_completed_100_Days_of_Wage_Employment |-> <<>>,
   percentage_payments_gererated_within_15_days |-> <<>>]

sKERALA == <<75,69,82,65,76,65>>
sKerala == <<107,101,114,97,108,97>>
sIDUKKI == <<73,68,85,75,75,73>>
sIdukki == <<73,100,117,107,107,105>>
sWAYANAD == <<87,65,89,65,78,65,68>>
sFY2425 == <<50,48,50,52,45,50,48,50,53>>
sFY2324 == <<50,48,50,51,45,50,48,50,52>>
sJan == <<74,97,110>>
sFEB == <<70,69,66>>
sFeb == <<70,101,98>>

\* Idukki, Kerala, January 2024-2025, codes derived
recIdukki ==
  [blankRecord EXCEPT
     !.state_name = sKERALA, !.district_name = sIDUKKI,
     !.fin_year = sFY2425, !.month = sJan,
     !.Average_days_of_employment_provided_per_Household = <<52,53,46,53>>,
     !.Number_of_Completed_Works = <<55>>,
     !.Number_of_Ongoing_Works = <<51>>,
     !.percentage_payments_gererated_within_15_days = <<57,56,46,55,54>>]

\* the same month of Idukki as republished with other figures
recIdukkiRevised ==
  [recIdukki EXCEPT
     !.Average_days_of_employment_provided_per_Household = <<49,50,48>>,
     !.Number_of_Completed_Works = <<110,47,97>>,
     !.percentage_payments_gererated_within_15_days = <<52,49,50,46,53>>]

\* Wayanad, Kerala, February 2023-2024, codes supplied by the upstream
recWayanad ==
  [blankRecord EXCEPT
     !.state_name = sKerala, !.state_code = <<75,76>>,
     !.district_name = sWAYANAD, !.district_code = <<51,50,49,50>>,
     !.fin_year = sFY2324, !.month = sFEB,
     !.Women_Persondays = <<53,53>>]

\* a Kerala record that carries another state code
recKeralaOtherCode ==
  [recWayanad EXCEPT !.state_code = <<51,50>>]

\* Idukki in February 2024-2025
recIdukkiFeb ==
  [recIdukki EXCEPT !.month = sFeb, !.Women_Persondays = <<49,50>>]

\* Wayanad in February 2024-2025
recWayanadNow ==
  [recWayanad EXCEPT !.fin_year = sFY2425]

\* a record without a month
recNoMonth ==
  [recIdukki EXCEPT !.month = <<>>]

IngestUniverse ==
  {recIdukki, recIdukkiRevised, recWayanad, recKeralaOtherCode, recNoMonth}

\* the lists of at most n records of S, none listed twice
SeqsUpTo(S, n) ==
  UNION {{b \in [1..k -> S] : \A i, j \in 1..k : b[i] = b[j] => i = j} : k \in 0..n}

Batches == SeqsUpTo(IngestUniverse, MaxBatch)

----------------------------------------------------------------------------
(* processAndStoreDataBulk: one transaction, five statements, commit;      *)
(* any throw is caught, the transaction rolled back and the error rethrown.*)
(* Statements of a transaction act on tx.work; other connections read db.  *)
(* Process 0 is a direct caller of the service, processes in Reqs are      *)
(* request handlers.                                                       *)

noTx ==
  [open |-> FALSE, owner |-> 0, step |-> "none", work |-> emptyDb,
   apiData |-> <<>>, result |-> <<>>]

\* process p is inside a call of processAndStoreDataBulk
Ingesting(p) ==
  IF p = 0 THEN caller.pc = "ingest" ELSE req[p].pc \in {"s2ingest", "fbingest", "bwingest", "s5ingest"}

ingestArg(p) == IF p = 0 THEN caller.apiData ELSE req[p].apiData

----------------------------------------------------------------------------
(* DistrictController.getDistrictData: where a request stands (pc) and how *)
(* it continues after each await.  Fields after "resp" are bookkeeping of  *)
(* what happened to the request; the handler does not read them.           *)

\* no query member in the body
noQuery == [state |-> <<>>, finYear |-> <<>>, district |-> <<>>, month |-> <<>>]

noResponse ==
  [status |-> 0, kind |-> "none", rows |-> <<>>, suggest |-> {},
   data |-> <<>>, lastUpdated |-> 0, query |-> noQuery]

idleRequest ==
  [pc |-> "idle", served |-> 0,
   state |-> <<>>, district |-> <<>>, finYear |-> <<>>, month |-> <<>>,
   stateRecord |-> {}, districtRecord |-> {}, apiData |-> <<>>,
   fbIdx |-> 0, fph |-> "none", ctx |-> "none", data |-> <<>>,
   resp |-> noResponse,
   nFetch |-> 0, nHttp |-> 0, nIngest |-> 0,
   stateLocal |-> FALSE, districtLocal |-> FALSE, firstHit |-> FALSE,
   fetchErr |-> FALSE, fetchOk |-> FALSE, dbFault |-> FALSE,
   ingested |-> <<>>, fbYielded |-> {}, again |-> FALSE]

\* return res.status(status).json(...)
respond(rq, status, kind, rows, suggest) ==
  [rq EXCEPT !.pc = "done",
             !.stateRecord = {}, !.districtRecord = {}, !.apiData = <<>>,
             !.fph = "none", !.ctx = "none", !.data = <<>>,
             !.resp = [status |-> status, kind |-> kind, rows |-> rows,
                       suggest |-> suggest, data |-> <<>>, lastUpdated |-> 0,
                       query |-> noQuery]]

\* line 18: missing state or finYear
respondValidation(rq) == respond(rq, 400, "validation", <<>>, {})

\* line 173: the state is unknown and no fallback year gave it
respondStateNoApi(rq) ==
  respond(rq, 404, "stateNotFoundNoApi", <<>>,
          {fallbackYears[i] : i \in 1..Len(fallbackYears)})

\* line 184: the state exists, 'Try 2022-2023 or 2023-2024'
respondNoDataForYear(rq) ==
  respond(rq, 404, "noDataForYear", <<>>, {fallbackYears[2], fallbackYears[1]})

\* line 220
respondStateNotFound(rq) == respond(rq, 404, "stateNotFound", <<>>, {})

\* line 237
respondDistrictNotFound(rq) == respond(rq, 404, "districtNotFound", <<>>, {})

\* line 272
respondDistrictNotFoundAfterFetch(rq) ==
  respond(rq, 404, "districtNotFoundAfterFetch", <<>>, {})

\* line 292: query {state, finYear, district || 'all', month || 'all'} and
\* tryYears ['2022-2023', '2023-2024']
respondNoPerformanceData(rq) ==
  [respond(rq, 404, "noPerformanceData", <<>>, {fallbackYears[2], fallbackYears[1]})
     EXCEPT !.resp.query =
              [state    |-> rq.state,
               finYear  |-> rq.finYear,
               district |-> IF Truthy(rq.district) THEN rq.district ELSE strAll,
               month    |-> IF Truthy(rq.month) THEN rq.month ELSE strAll]]

\* line 210: the catch of the state backfill
respondUnavailable(rq) == respond(rq, 503, "upstreamUnavailable", <<>>, {})

\* variant: no outer catch; the exception leaves the handler and nothing
\* is sent
unhandled(rq) == [rq EXCEPT !.pc = "idle", !.dbFault = TRUE]

\* line 333: the outer catch
respondFailed(rq) == respond(rq, 500, "failed", <<>>, {})

\* variant: the score column of the row is returned as stored
storedItem(item) ==
  [item EXCEPT !.performanceGrade = getPerformanceGrade(item)]

\* lines 310-318: an item of processedData, the row with its score and
\* grade replaced.  itemJson.extendedMetrics?.performanceScore is
\* undefined, DistrictExtendedMetrics has no such attribute, so the score
\* is the one calculatePerformanceScore gives.
processedItem(item) ==
  [item EXCEPT !.performanceScore = calculatePerformanceScore(item),
               !.performanceGrade = getPerformanceGrade(item)]

\* line 326: data[0]?.updated_at, of a result that is not empty
lastUpdated(data) == data[1].updated_at

\* line 320: 200 with processedData and dataFreshness; rows is the result
\* they were made from
respondData(rq) ==
  [respond(rq, 200, "data", rq.data, {}) EXCEPT
     !.resp.data = [i \in 1..Len(rq.data) |-> processedItem(rq.data[i])],
     !.resp.lastUpdated = lastUpdated(rq.data)]

\* a call of mgnregaApiService.fetchDistrictData from the place pc
enterFetch(rq, pc) ==
  [rq EXCEPT !.pc = pc, !.fph = "cache", !.nFetch = @ + 1]

\* a call of dataProcessingService.processAndStoreDataBulk(apiData)
enterIngest(rq, pc, apiData) ==
  [rq EXCEPT !.pc = pc, !.apiData = apiData, !.nIngest = @ + 1]

\* step 6 (line 291): no rows is 404, otherwise 200
finish(rq) ==
  IF Len(rq.data) = 0 THEN respondNoPerformanceData(rq) ELSE respondData(rq)

\* buildWhereClause returned null (line 78): lines 236 and 271
districtMissing(rq) ==
  IF rq.ctx = "main" THEN respondDistrictNotFound(rq)
  ELSE respondDistrictNotFoundAfterFetch(rq)

\* buildWhereClause returned a where clause: the query of line 245 or 280
whereBuilt(rq) ==
  [rq EXCEPT !.pc = IF rq.ctx = "main" THEN "query" ELSE "requery"]

\* buildWhereClause(finYear, month, district, stateCode, stateName), called
\* from line 227 (ctx "main") or line 262 (ctx "refetch")
buildWhereClause(rq, ctx) ==
  IF Truthy(rq.district)
  THEN [rq EXCEPT !.pc = "bwfind", !.ctx = ctx, !.districtRecord = {}]
  ELSE whereBuilt([rq EXCEPT !.ctx = ctx, !.districtRecord = {}])

\* line 219: with a state go on to buildWhereClause
stateResolved(rq) ==
  IF rq.stateRecord = {} THEN respondStateNotFound(rq)
  ELSE buildWhereClause(rq, "main")

\* variant: the loop asks for its first year again and again
firstFallbackAgain(rq) == enterFetch([rq EXCEPT !.fbIdx = 1], "fbfetch")

\* the for loop over fallbackYears (line 144): the next year, or line 164
nextFallback(rq) ==
  IF rq.fbIdx < Len(fallbackYears)
  THEN enterFetch([rq EXCEPT !.fbIdx = @ + 1], "fbfetch")
  ELSE [rq EXCEPT !.pc = "fbrefind"]

\* after line 131
afterFetchState(rq, threw, records) ==
  IF threw THEN respondUnavailable(rq)
  ELSE IF Len(records) = 0 THEN nextFallback([rq EXCEPT !.fbIdx = 0])
  ELSE enterIngest(rq, "s2ingest", records)

\* after line 147, inside the try of the loop
afterFetchFallback(rq, threw, records) ==
  IF threw \/ Len(records) = 0 THEN nextFallback(rq)
  ELSE enterIngest([rq EXCEPT !.fbYielded = @ \cup {fallbackYears[rq.fbIdx]}],
                   "fbingest", records)

\* variant: an empty answer for the district is asked for once more
afterFetchDistrictRetry(rq, threw, records) ==
  IF threw THEN districtMissing([rq EXCEPT !.fetchErr = TRUE])
  ELSE IF Len(records) = 0
  THEN (IF rq.nFetch < 4 THEN enterFetch(rq, "bwfetch") ELSE districtMissing(rq))
  ELSE enterIngest(rq, "bwingest", records)

\* after line 46, inside the try of buildWhereClause
afterFetchDistrict(rq, threw, records) ==
  IF threw THEN districtMissing([rq EXCEPT !.fetchErr = TRUE])
  ELSE IF Len(records) = 0 THEN districtMissing(rq)
  ELSE enterIngest(rq, "bwingest", records)

\* variant: step 5 without its try, the throw of fetchDistrictData ends
\* the request
afterFetchFreshUncaught(rq, threw, records) ==
  IF threw THEN respondFailed([rq EXCEPT !.fetchErr = TRUE])
  ELSE IF Len(records) = 0 THEN finish(rq)
  ELSE enterIngest(rq, "s5ingest", records)

\* variant: line 254 does not look at the length of what was fetched
afterFetchFreshUnguarded(rq, threw, records) ==
  IF threw THEN finish([rq EXCEPT !.fetchErr = TRUE])
  ELSE enterIngest(rq, "s5ingest", records)

\* after line 252, inside the try of step 5
afterFetchFresh(rq, threw, records) ==
  IF threw THEN finish([rq EXCEPT !.fetchErr = TRUE])
  ELSE IF Len(records) = 0 THEN finish(rq)
  ELSE enterIngest(rq, "s5ingest", records)

\* where the request continues after fetchDistrictData returned records
\* or threw (fetchOk: some call of the request returned)
afterFetch(rq, threw, records) ==
  LET got == IF threw THEN rq ELSE [rq EXCEPT !.fetchOk = TRUE]
  IN CASE rq.pc = "s2fetch" -> afterFetchState(got, threw, records)
       [] rq.pc = "fbfetch" -> afterFetchFallback(got, threw, records)
       [] rq.pc = "bwfetch" -> afterFetchDistrict(got, threw, records)
       [] rq.pc = "s5fetch" -> afterFetchFresh(got, threw, records)

\* variant: the state backfill ends like the fallback loop, with the
\* lookup of line 164 and a 404
afterIngestStateUnqueried(rq, ok) ==
  IF ok THEN [rq EXCEPT !.pc = "fbrefind"]
  ELSE respondUnavailable([rq EXCEPT !.dbFault = TRUE])

\* after line 197: a throw reaches the catch of line 208
afterIngestState(rq, ok) ==
  IF ok THEN [rq EXCEPT !.pc = "s2refind"]
  ELSE respondUnavailable([rq EXCEPT !.dbFault = TRUE])

\* after line 155: break, or the catch of line 158 and the next year
afterIngestFallback(rq, ok) ==
  IF ok THEN [rq EXCEPT !.pc = "fbrefind"]
  ELSE nextFallback([rq EXCEPT !.dbFault = TRUE])

\* after line 54: the lookup of line 57, or the catch of line 70
afterIngestDistrict(rq, ok) ==
  IF ok THEN [rq EXCEPT !.pc = "bwrefind"]
  ELSE districtMissing([rq EXCEPT !.dbFault = TRUE])

\* variant: after the ingestion of step 5 the API is asked once more
afterIngestFreshRefetch(rq, ok) ==
  IF ok /\ rq.nFetch < 4 THEN enterFetch(rq, "s5fetch")
  ELSE IF ok THEN buildWhereClause(rq, "refetch")
  ELSE finish([rq EXCEPT !.dbFault = TRUE])

\* after line 259: buildWhereClause again, or the catch of line 284
afterIngestFresh(rq, ok) ==
  IF ok THEN buildWhereClause(rq, "refetch")
  ELSE finish([rq EXCEPT !.dbFault = TRUE])

\* where the request continues after processAndStoreDataBulk returned
\* result (ok) or threw
afterIngest(rq, ok, result) ==
  LET got == IF ok
             THEN [rq EXCEPT !.ingested = Append(@, rq.apiData)]
             ELSE rq
  IN CASE rq.pc = "s2ingest" -> afterIngestState(got, ok)
       [] rq.pc = "fbingest" -> afterIngestFallback(got, ok)
       [] rq.pc = "bwingest" -> afterIngestDistrict(got, ok)
       [] rq.pc = "s5ingest" -> afterIngestFresh(got, ok)

\* a request that is being handled
Active(rq) == rq.pc \notin {"idle", "done"}

\* the call returns insertedPerformances (ok: the transaction committed)
\* or throws
Deliver(p, ok, result) ==
  /\ caller' = IF p = 0
               THEN [caller EXCEPT !.pc = "idle",
                                   !.outcome = IF ok THEN "ok" ELSE "error"]
               ELSE caller
  /\ req' = [r \in Reqs |->
               IF r = p THEN afterIngest(req[r], ok, result) ELSE req[r]]

\* const transaction = await sequelize.transaction()
Begin(p) ==
  /\ Ingesting(p)
  /\ ~tx.open
  /\ tx' = [open |-> TRUE, owner |-> p, step |-> "states", work |-> db,
            apiData |-> ingestArg(p), result |-> <<>>]
  /\ UNCHANGED <<db, autoInc, clock, cache, upstream, asked, caller, req>>

\* a statement that throws leaves the transaction to the catch block
Statement(p, step, r, next) ==
  /\ tx.open /\ tx.owner = p /\ tx.step = step
  /\ \E fault \in BOOLEAN :
       tx' = IF r.ok /\ ~fault
             THEN [tx EXCEPT !.work = r.db, !.step = next]
             ELSE [tx EXCEPT !.step = "catch"]
  /\ UNCHANGED <<db, clock, cache, upstream, asked, caller, req>>

StepStates(p) ==
  /\ Statement(p, "states",
               bulkUpsertStates(tx.work, extractUniqueStates(tx.apiData)),
               "districts")
  /\ UNCHANGED autoInc

StepDistricts(p) ==
  /\ Statement(p, "districts",
               bulkUpsertDistricts(tx.work, extractUniqueDistricts(tx.apiData)),
               "finYears")
  /\ UNCHANGED autoInc

StepFinYears(p) ==
  /\ Statement(p, "finYears",
               bulkUpsertFinancialYears(tx.work, extractUniqueFinYears(tx.apiData)),
               "performance")
  /\ UNCHANGED autoInc

StepPerformance(p) ==
  /\ tx.open /\ tx.owner = p /\ tx.step = "performance"
  /\ LET r == bulkUpsertPerformance(tx.work, preparePerformanceRecords(tx.apiData),
                                    autoInc.perf, clock + 1)
     IN \E fault \in BOOLEAN :
          IF r.ok /\ ~fault
          THEN /\ tx' = [tx EXCEPT !.work = r.db, !.step = "extended", !.result = r.result]
               /\ autoInc' = [autoInc EXCEPT !.perf = r.id]
          ELSE /\ tx' = [tx EXCEPT !.step = "catch"]
               /\ UNCHANGED autoInc
  /\ UNCHANGED <<db, clock, cache, upstream, asked, caller, req>>

StepExtended(p) ==
  /\ tx.open /\ tx.owner = p /\ tx.step = "extended"
  /\ LET r == bulkUpsertExtendedMetrics(tx.work, tx.result, autoInc.ext)
     IN \E fault \in BOOLEAN :
          IF ~fault
          THEN /\ tx' = [tx EXCEPT !.work = r.db, !.step = "commit"]
               /\ autoInc' = [autoInc EXCEPT !.ext = r.id]
          ELSE /\ tx' = [tx EXCEPT !.step = "catch"]
               /\ UNCHANGED autoInc
  /\ UNCHANGED <<db, clock, cache, upstream, asked, caller, req>>

\* await transaction.commit(); return insertedPerformances
Commit(p) ==
  /\ tx.open /\ tx.owner = p /\ tx.step = "commit"
  /\ \E fault \in BOOLEAN :
       IF ~fault
       THEN /\ db' = tx.work
            /\ clock' = clock + 1
            /\ tx' = noTx
            /\ Deliver(p, TRUE, tx.result)
       ELSE /\ tx' = [tx EXCEPT !.step = "catch"]
            /\ UNCHANGED <<db, clock, caller, req>>
  /\ UNCHANGED <<autoInc, cache, upstream, asked>>

\* variant: the catch block rethrows without rolling back, and the
\* connection's writes stay
RethrowOnly(p) ==
  /\ tx.open /\ tx.owner = p /\ tx.step = "catch"
  /\ tx' = noTx
  /\ db' = tx.work
  /\ Deliver(p, FALSE, <<>>)
  /\ UNCHANGED <<autoInc, clock, cache, upstream, asked>>

\* catch (error) { await transaction.rollback(); throw error; }
Rollback(p) ==
  /\ tx.open /\ tx.owner = p /\ tx.step = "catch"
  /\ tx' = noTx
  /\ Deliver(p, FALSE, <<>>)
  /\ UNCHANGED <<db, autoInc, clock, cache, upstream, asked>>

processAndStoreDataBulk(p) ==
  \/ Begin(p)
  \/ StepStates(p)
  \/ StepDistricts(p)
  \/ StepFinYears(p)
  \/ StepPerformance(p)
  \/ StepExtended(p)
  \/ Commit(p)
  \/ Rollback(p)

----------------------------------------------------------------------------
(* The direct caller: ingests batch after batch *)

\* the direct caller has not called fetchDistrictData
noFetch ==
  [n |-> 0, args |-> [stateName |-> <<>>, finYear |-> <<>>, districtName |-> <<>>],
   upGet |-> FALSE, upSet |-> FALSE,
   ans |-> [kind |-> "none", records |-> <<>>],
   before |-> <<>>,
   out |-> [threw |-> FALSE, records |-> <<>>, http |-> 0]]

\* the direct caller has not called compareDistricts
noCompare ==
  [n |-> 0, districtNames |-> <<>>, status |-> 0, count |-> 0,
   districts |-> <<>>, metrics |-> <<>>, rankings |-> <<>>]

\* the direct caller has not called generateDistrictCode
noDerive == [n |-> 0, districtName |-> <<>>, stateCode |-> <<>>, code |-> <<>>]

\* the direct caller has not called getPerformanceGrade
noGrade ==
  [n |-> 0,
   district |-> [averageDaysEmployment |-> 0, paymentWithin15Days |-> 0,
                 womenPersondays |-> 0, completedWorks |-> 0, ongoingWorks |-> 0],
   grade |-> <<>>,
   prev |-> [score |-> 0, grade |-> <<>>]]

\* the direct caller passes a batch of B to processAndStoreDataBulk
CallWith(B) ==
  /\ caller.pc = "idle"
  /\ caller.calls < MaxIngests
  /\ \E b \in B :
       caller' = [pc      |-> "ingest",
                  apiData |-> b,
                  calls   |-> caller.calls + 1,
                  again   |-> caller.outcome = "ok" /\ b = caller.apiData,
                  before  |-> db,
                  outcome |-> "none",
                  fetch   |-> caller.fetch,
                  cmp     |-> caller.cmp,
                  gen     |-> caller.gen,
                  grd     |-> caller.grd]
  /\ UNCHANGED <<db, autoInc, clock, tx, cache, upstream, asked, req>>

Call == CallWith(Batches)

Init ==
  /\ db = emptyDb
  /\ autoInc = [perf |-> 1, ext |-> 1]
  /\ clock = 0
  /\ tx = noTx
  /\ cache = <<>>
  /\ caller = [pc |-> "idle", apiData |-> <<>>, calls |-> 0, again |-> FALSE,
               before |-> emptyDb, outcome |-> "none", fetch |-> noFetch,
               cmp |-> noCompare, gen |-> noDerive,
               grd |-> noGrade]
  /\ req = [r \in Reqs |-> idleRequest]
  /\ upstream = <<recIdukki, recWayanad>>
  /\ asked = {[state |-> sKerala, district |-> sIdukki, finYear |-> sFY2425, month |-> <<>>],
              [state |-> sKERALA, district |-> <<>>,    finYear |-> sFY2425, month |-> sFeb],
              [state |-> sKERALA, district |-> <<>>,    finYear |-> <<>>,    month |-> <<>>],
              [state |-> <<>>,    district |-> sIdukki, finYear |-> sFY2425, month |-> <<>>]}

----------------------------------------------------------------------------
(* MGNREGAApiService.fetchDistrictData and CacheService *)

\* requests served by all handlers together
MaxRequests == 2

\* the records the upstream may hold, in the order it lists them
upstreamRecords == <<recIdukki, recIdukkiFeb, recWayanad>>

\* what the upstream holds; an answer lists records that pass the filters
UpstreamUniverse == {upstream[i] : i \in 1..Len(upstream)}

\* the queries clients may send
Queries ==
  {[state |-> sKerala, district |-> sIdukki, finYear |-> sFY2425, month |-> <<>>],
   [state |-> sKERALA, district |-> <<>>,    finYear |-> sFY2425, month |-> sFeb],
   [state |-> sKerala, district |-> <<>>,    finYear |-> sFY2324, month |-> <<>>],
   [state |-> sKERALA, district |-> <<>>,    finYear |-> <<>>,    month |-> <<>>],
   [state |-> <<>>,    district |-> sIdukki, finYear |-> sFY2425, month |-> <<>>]}

\* `mgnrega:${stateName}:${finYear}:${districtName || 'all'}`
cacheKey(args) ==
  strMgnrega \o <<58>> \o args.stateName \o <<58>> \o args.finYear \o <<58>>
             \o (IF Truthy(args.districtName) THEN args.districtName ELSE strAll)

\* the arguments of the fetchDistrictData call the request is in
fetchArgs(rq) ==
  CASE rq.pc = "fbfetch" ->
         [stateName |-> rq.state, finYear |-> fallbackYears[rq.fbIdx],
          districtName |-> <<>>]
    [] rq.pc = "bwfetch" ->
         [stateName |-> (CHOOSE x \in rq.stateRecord : TRUE).stateName,
          finYear |-> rq.finYear, districtName |-> rq.district]
    [] OTHER ->
         [stateName |-> rq.state, finYear |-> rq.finYear,
          districtName |-> rq.district]

Fetching(rq) == rq.pc \in {"s2fetch", "fbfetch", "bwfetch", "s5fetch"}

\* the records of the upstream that pass filters[state_name],
\* filters[fin_year] and filters[district_name]
upstreamMatches(args) ==
  {u \in UpstreamUniverse :
     /\ toUpperCase(u.state_name) = toUpperCase(args.stateName)
     /\ u.fin_year = args.finYear
     /\ Truthy(args.districtName) =>
          toUpperCase(u.district_name) = toUpperCase(args.districtName)}

\* the records of l follow one another as the upstream lists them
inUpstreamOrder(l) ==
  \A i, j \in 1..Len(l) :
    i < j => \E m, n \in 1..Len(upstream) :
               m < n /\ upstream[m] = l[i] /\ upstream[n] = l[j]

\* axiosInstance.get: it throws, or answers without a records member, or
\* answers with a list of records (which may be empty)
upstreamAnswers(args) ==
  {[kind |-> "error", records |-> <<>>], [kind |-> "norecords", records |-> <<>>]}
    \cup {[kind |-> "records", records |-> b] :
            b \in {l \in SeqsUpTo(upstreamMatches(args), MaxBatch) : inUpstreamOrder(l)}}

\* variant: get lets the failure of the transport through
cacheGetThrowing(c, key, up) ==
  [threw |-> ~up, value |-> IF up /\ key \in DOMAIN c THEN {c[key]} ELSE {}]

\* CacheService.get(key): the entry under key, null when there is none or
\* when the transport fails (the catch returns null).  The value is what
\* set was given: it was serialized as JSON and is parsed back, and the
\* records, which reached the program as JSON, read back as they were.
cacheGet(c, key, up) ==
  [threw |-> FALSE, value |-> IF up /\ key \in DOMAIN c THEN {c[key]} ELSE {}]

\* CacheService.set(key, value, ttl): true and the entry stored, false and
\* nothing stored when the transport fails
cacheSet(c, key, value, up) ==
  [threw |-> FALSE, ok |-> up, cache |-> IF up THEN (key :> value) @@ c ELSE c]

\* what fetchDistrictData gives its caller when it throws (line 574)
fetchThrew(c, http) == [threw |-> TRUE, records |-> <<>>, cache |-> c, http |-> http]

\* variant: a failed request to the upstream reads as no records
afterHttpSwallowed(c, key, ans, upSet) ==
  IF ans.kind = "records"
  THEN LET put == cacheSet(c, key, ans.records, upSet)
       IN [threw |-> FALSE, records |-> ans.records, cache |-> put.cache, http |-> 1]
  ELSE [threw |-> FALSE, records |-> <<>>, cache |-> c, http |-> 1]

\* lines 560-575: the answer of axiosInstance.get; records are cached and
\* returned, an answer without records is [], a throw is rethrown
afterHttp(c, key, ans, upSet) ==
  IF ans.kind = "error" THEN fetchThrew(c, 1)
  ELSE IF ans.kind = "records"
  THEN LET put == cacheSet(c, key, ans.records, upSet)
       IN IF put.threw THEN fetchThrew(c, 1)
          ELSE [threw |-> FALSE, records |-> ans.records, cache |-> put.cache,
                http |-> 1]
  ELSE [threw |-> FALSE, records |-> <<>>, cache |-> c, http |-> 1]

\* variant: the upstream is asked whatever the cache holds
fetchDistrictDataRefresh(c, args, upGet, upSet, ans) ==
  afterHttp(c, cacheKey(args), ans, upSet)

\* fetchDistrictData({stateName, finYear, districtName}) on the cache c,
\* with the transport of the cache up or not at get and at set, and ans
\* the answer of the upstream if it is asked: what is returned or thrown,
\* the cache afterwards, the number of requests made to the upstream.
\* Any cached list, an empty one too, is truthy and returned (line 543).
fetchDistrictData(c, args, upGet, upSet, ans) ==
  LET got == cacheGet(c, cacheKey(args), upGet)
  IN IF got.threw THEN fetchThrew(c, 0)
     ELSE IF got.value # {}
     THEN [threw |-> FALSE, records |-> CHOOSE v \in got.value : TRUE,
           cache |-> c, http |-> 0]
     ELSE afterHttp(c, cacheKey(args), ans, upSet)

\* lines 539-546 for a request handler: cacheService.get, then the return
\* of the cached list or the request to the upstream
CacheGet(r) ==
  /\ Fetching(req[r]) /\ req[r].fph = "cache"
  /\ \E up \in BOOLEAN :
       LET got == cacheGet(cache, cacheKey(fetchArgs(req[r])), up)
       IN req' = [req EXCEPT ![r] =
                    IF got.threw
                    THEN afterFetch([req[r] EXCEPT !.fph = "none"], TRUE, <<>>)
                    ELSE IF got.value # {}
                    THEN afterFetch([req[r] EXCEPT !.fph = "none"], FALSE,
                                    CHOOSE v \in got.value : TRUE)
                    ELSE [req[r] EXCEPT !.fph = "http"]]
  /\ UNCHANGED <<db, autoInc, clock, tx, cache, upstream, asked, caller>>

\* lines 548-575 for a request handler: the request to the upstream and
\* what follows it
HttpGet(r) ==
  /\ Fetching(req[r]) /\ req[r].fph = "http"
  /\ \E ans \in upstreamAnswers(fetchArgs(req[r])), up \in BOOLEAN :
       LET out == afterHttp(cache, cacheKey(fetchArgs(req[r])), ans, up)
       IN /\ cache' = out.cache
          /\ req' = [req EXCEPT ![r] =
                       afterFetch([req[r] EXCEPT !.fph = "none", !.nHttp = @ + out.http],
                                  out.threw, out.records)]
  /\ UNCHANGED <<db, autoInc, clock, tx, caller, upstream, asked>>

\* calls of fetchDistrictData made by the direct caller
MaxFetches == 3

\* the arguments the direct caller passes
FetchInputs ==
  {[stateName |-> q.state, finYear |-> q.finYear, districtName |-> q.district] :
     q \in {x \in Queries : Truthy(x.state) /\ Truthy(x.finYear)}}

\* the direct caller calls fetchDistrictData and keeps what it passed,
\* what the cache held and what came back
Fetch ==
  /\ caller.pc = "idle"
  /\ caller.fetch.n < MaxFetches
  /\ \E args \in FetchInputs, upGet \in BOOLEAN, upSet \in BOOLEAN :
       \E ans \in upstreamAnswers(args) :
         LET out == fetchDistrictData(cache, args, upGet, upSet, ans)
         IN /\ cache' = out.cache
            /\ caller' = [caller EXCEPT
                            !.fetch = [n |-> caller.fetch.n + 1, args |-> args,
                                       upGet |-> upGet, upSet |-> upSet,
                                       ans |-> ans, before |-> cache,
                                       out |-> [threw |-> out.threw,
                                                records |-> out.records,
                                                http |-> out.http]]]
  /\ UNCHANGED <<db, autoInc, clock, tx, req, upstream, asked>>

----------------------------------------------------------------------------
(* getDistrictData: the reads of local storage *)

\* what findOne may return from the rows that match: one of them, or null
findOne(rows) == IF rows = {} THEN {{}} ELSE {{x} : x \in rows}

\* State.findOne({where: {stateName: {[Op.like]: state.toUpperCase()}}})
stateMatches(d, state) ==
  {x \in d.states : Like(x.stateName, toUpperCase(state))}

\* District.findOne({where: {districtName: {[Op.like]: district.toUpperCase()}, stateCode}})
districtMatches(d, district, stateCode) ==
  {x \in d.districts :
     Like(x.districtName, toUpperCase(district)) /\ CiEq(x.stateCode, stateCode)}

theState(rq) == CHOOSE x \in rq.stateRecord : TRUE

theDistrict(rq) == CHOOSE x \in rq.districtRecord : TRUE

\* the rows DistrictPerformance.findAll selects: whereClause (finYear,
\* month, districtCode) and the required join on the district's stateCode
performanceMatches(d, rq) ==
  {x \in d.perfs :
     /\ CiEq(x.finYear, rq.finYear)
     /\ Truthy(rq.month) => CiEq(x.month, toUpperCase(rq.month))
     /\ Truthy(rq.district) => CiEq(x.districtCode, theDistrict(rq).districtCode)
     /\ \E y \in d.districts :
          CiEq(y.districtCode, x.districtCode) /\ CiEq(y.stateCode, theState(rq).stateCode)}

\* variant: order: [['updated_at', 'DESC'], ['month', 'DESC']]
orderedBeforeByTime(a, b) ==
  \/ a.updated_at > b.updated_at
  \/ a.updated_at = b.updated_at /\ CiLess(b.month, a.month)

\* order: [['month', 'DESC'], ['updated_at', 'DESC']]: a comes before b
orderedBefore(a, b) ==
  \/ CiLess(b.month, a.month)
  \/ CiEq(a.month, b.month) /\ a.updated_at > b.updated_at

\* the lists findAll may return: the rows, each once, in the order asked
fetchPerformanceData(d, rq) ==
  LET rows == performanceMatches(d, rq)
      n    == Cardinality(rows)
  IN {l \in [1..n -> rows] :
        /\ \A i, j \in 1..n : l[i] = l[j] => i = j
        /\ \A i, j \in 1..n : i < j => ~orderedBefore(l[j], l[i])}

\* variant: the parameters are not checked
beginUnchecked(q, served) ==
  [idleRequest EXCEPT !.pc = "findState", !.served = served,
                      !.state = q.state, !.district = q.district,
                      !.finYear = q.finYear, !.month = q.month]

\* lines 15-22 and 118: the parameters, then the state by name
begin(q, served) ==
  LET rq == [idleRequest EXCEPT !.served = served, !.state = q.state,
                                !.district = q.district, !.finYear = q.finYear,
                                !.month = q.month]
  IN IF ~Truthy(q.state) \/ ~Truthy(q.finYear) THEN respondValidation(rq)
     ELSE [rq EXCEPT !.pc = "findState"]

\* the query q repeats the request rq, which was answered 200
repeats(rq, q) ==
  /\ rq.pc = "done" /\ rq.resp.status = 200
  /\ rq.state = q.state /\ rq.district = q.district
  /\ rq.finYear = q.finYear /\ rq.month = q.month

RECURSIVE servedBy(_)
servedBy(S) ==
  IF S = {} THEN 0
  ELSE LET r == CHOOSE x \in S : TRUE IN req[r].served + servedBy(S \ {r})

\* the handlers are alike: a handler takes a request only when the
\* handlers before it have one
Start(r) ==
  /\ ~Active(req[r])
  /\ \A o \in Reqs : o < r => req[o].served > 0
  /\ servedBy(Reqs) < MaxRequests
  /\ \E q \in asked :
       req' = [req EXCEPT ![r] = [begin(q, req[r].served + 1) EXCEPT
                                    !.again = repeats(req[r], q)]]
  /\ UNCHANGED <<db, autoInc, clock, tx, cache, upstream, asked, caller>>

\* line 127: a state that is not in the DB is fetched from the API
afterFindState(rq, found) ==
  IF found = {} THEN enterFetch(rq, "s2fetch")
  ELSE buildWhereClause([rq EXCEPT !.stateRecord = found, !.stateLocal = TRUE], "main")

\* line 118; a read that throws reaches the outer catch
FindState(r) ==
  /\ req[r].pc = "findState"
  /\ \E fault \in BOOLEAN, found \in findOne(stateMatches(db, req[r].state)) :
       req' = [req EXCEPT ![r] =
                 IF fault THEN respondFailed([req[r] EXCEPT !.dbFault = TRUE])
                 ELSE afterFindState(req[r], found)]
  /\ UNCHANGED <<db, autoInc, clock, tx, cache, upstream, asked, caller>>

\* line 200, inside the try of the state backfill
RefindState(r) ==
  /\ req[r].pc = "s2refind"
  /\ \E fault \in BOOLEAN, found \in findOne(stateMatches(db, req[r].state)) :
       req' = [req EXCEPT ![r] =
                 IF fault THEN respondUnavailable([req[r] EXCEPT !.dbFault = TRUE])
                 ELSE stateResolved([req[r] EXCEPT !.stateRecord = found])]
  /\ UNCHANGED <<db, autoInc, clock, tx, cache, upstream, asked, caller>>

\* lines 164-193: after the fallback years the request ends with a 404
afterFallback(rq, found) ==
  IF found = {} THEN respondStateNoApi(rq)
  ELSE respondNoDataForYear([rq EXCEPT !.stateRecord = found])

RefindStateFallback(r) ==
  /\ req[r].pc = "fbrefind"
  /\ \E fault \in BOOLEAN, found \in findOne(stateMatches(db, req[r].state)) :
       req' = [req EXCEPT ![r] =
                 IF fault THEN respondUnavailable([req[r] EXCEPT !.dbFault = TRUE])
                 ELSE afterFallback(req[r], found)]
  /\ UNCHANGED <<db, autoInc, clock, tx, cache, upstream, asked, caller>>

\* line 41: a district that is not in the DB is fetched from the API
afterFindDistrict(rq, found) ==
  IF found = {} THEN enterFetch(rq, "bwfetch")
  ELSE whereBuilt([rq EXCEPT !.districtRecord = found,
                             !.districtLocal = (rq.ctx = "main")])

\* a throw of line 33 reaches the outer catch from line 227 and the catch
\* of step 5 from line 262
findDistrictThrew(rq) ==
  IF rq.ctx = "main" THEN respondFailed([rq EXCEPT !.dbFault = TRUE])
  ELSE finish([rq EXCEPT !.dbFault = TRUE])

\* line 33
FindDistrict(r) ==
  /\ req[r].pc = "bwfind"
  /\ \E fault \in BOOLEAN,
        found \in findOne(districtMatches(db, req[r].district, theState(req[r]).stateCode)) :
       req' = [req EXCEPT ![r] =
                 IF fault THEN findDistrictThrew(req[r])
                 ELSE afterFindDistrict(req[r], found)]
  /\ UNCHANGED <<db, autoInc, clock, tx, cache, upstream, asked, caller>>

\* lines 57-79
afterRefindDistrict(rq, found) ==
  IF found = {} THEN districtMissing(rq)
  ELSE whereBuilt([rq EXCEPT !.districtRecord = found])

\* line 57, inside the try of buildWhereClause
RefindDistrict(r) ==
  /\ req[r].pc = "bwrefind"
  /\ \E fault \in BOOLEAN,
        found \in findOne(districtMatches(db, req[r].district, theState(req[r]).stateCode)) :
       req' = [req EXCEPT ![r] =
                 IF fault THEN districtMissing([req[r] EXCEPT !.dbFault = TRUE])
                 ELSE afterRefindDistrict(req[r], found)]
  /\ UNCHANGED <<db, autoInc, clock, tx, cache, upstream, asked, caller>>

\* variant: the API is asked whatever the query returned
afterQueryRefresh(rq, rows) ==
  enterFetch([rq EXCEPT !.data = rows, !.firstHit = Len(rows) > 0], "s5fetch")

\* line 248: without rows the API is asked once more
afterQuery(rq, rows) ==
  IF Len(rows) = 0 THEN enterFetch([rq EXCEPT !.data = rows], "s5fetch")
  ELSE finish([rq EXCEPT !.data = rows, !.firstHit = TRUE])

\* line 245
Query(r) ==
  /\ req[r].pc = "query"
  /\ \E fault \in BOOLEAN, rows \in fetchPerformanceData(db, req[r]) :
       req' = [req EXCEPT ![r] =
                 IF fault THEN respondFailed([req[r] EXCEPT !.dbFault = TRUE])
                 ELSE afterQuery(req[r], rows)]
  /\ UNCHANGED <<db, autoInc, clock, tx, cache, upstream, asked, caller>>

\* line 280, inside the try of step 5
Requery(r) ==
  /\ req[r].pc = "requery"
  /\ \E fault \in BOOLEAN, rows \in fetchPerformanceData(db, req[r]) :
       req' = [req EXCEPT ![r] =
                 IF fault THEN finish([req[r] EXCEPT !.dbFault = TRUE])
                 ELSE finish([req[r] EXCEPT !.data = rows])]
  /\ UNCHANGED <<db, autoInc, clock, tx, cache, upstream, asked, caller>>

\* the handler after it has taken a request
handle(r) ==
  \/ FindState(r)
  \/ CacheGet(r)
  \/ HttpGet(r)
  \/ RefindState(r)
  \/ RefindStateFallback(r)
  \/ FindDistrict(r)
  \/ RefindDistrict(r)
  \/ Query(r)
  \/ Requery(r)
  \/ processAndStoreDataBulk(r)

getDistrictData(r) ==
  \/ Start(r)
  \/ handle(r)

\* one handler serves request after request
Next == getDistrictData(1)

Spec == Init /\ [][Next]_vars

\* storage and cache empty, no request, an upstream that holds two months
\* of a district, and clients that ask for a fallback period as well
InitMonths ==
  /\ db = emptyDb
  /\ autoInc = [perf |-> 1, ext |-> 1]
  /\ clock = 0
  /\ tx = noTx
  /\ cache = <<>>
  /\ caller = [pc |-> "idle", apiData |-> <<>>, calls |-> 0, again |-> FALSE,
               before |-> emptyDb, outcome |-> "none", fetch |-> noFetch,
               cmp |-> noCompare, gen |-> noDerive,
               grd |-> noGrade]
  /\ req = [r \in Reqs |-> idleRequest]
  /\ upstream = upstreamRecords
  /\ asked = Queries

\* the same handler in front of that upstream
SpecMonths == InitMonths /\ [][Next]_vars

\* storage and cache empty, no request, an upstream that holds two
\* districts of one state and period, and clients that ask for the state
\* and period, or for a month of one district
InitFirstSight ==
  /\ db = emptyDb
  /\ autoInc = [perf |-> 1, ext |-> 1]
  /\ clock = 0
  /\ tx = noTx
  /\ cache = <<>>
  /\ caller = [pc |-> "idle", apiData |-> <<>>, calls |-> 0, again |-> FALSE,
               before |-> emptyDb, outcome |-> "none", fetch |-> noFetch,
               cmp |-> noCompare, gen |-> noDerive,
               grd |-> noGrade]
  /\ req = [r \in Reqs |-> idleRequest]
  /\ upstream = <<recIdukki, recWayanadNow>>
  /\ asked = {[state |-> sKERALA, district |-> <<>>,    finYear |-> sFY2425, month |-> <<>>],
              [state |-> sKerala, district |-> sIdukki, finYear |-> sFY2425, month |-> sFeb]}

SpecFirstSight == InitFirstSight /\ [][Next]_vars

\* the same upstream, and clients that also send a request without
\* finYear
InitAnswers ==
  /\ db = emptyDb
  /\ autoInc = [perf |-> 1, ext |-> 1]
  /\ clock = 0
  /\ tx = noTx
  /\ cache = <<>>
  /\ caller = [pc |-> "idle", apiData |-> <<>>, calls |-> 0, again |-> FALSE,
               before |-> emptyDb, outcome |-> "none", fetch |-> noFetch,
               cmp |-> noCompare, gen |-> noDerive,
               grd |-> noGrade]
  /\ req = [r \in Reqs |-> idleRequest]
  /\ upstream = <<recIdukki, recWayanadNow>>
  /\ asked = {[state |-> sKERALA, district |-> <<>>,    finYear |-> sFY2425, month |-> <<>>],
              [state |-> sKerala, district |-> sIdukki, finYear |-> sFY2425, month |-> sFeb],
              [state |-> sKERALA, district |-> <<>>,    finYear |-> <<>>,    month |-> <<>>]}

SpecAnswers == InitAnswers /\ [][Next]_vars

\* the same request reaches two handlers: the second one while the first
\* is being handled
Twins ==
  \A r, o \in Reqs :
    /\ req[r].served <= 1
    /\ req[r].served = 1 /\ req[o].served = 1 =>
         /\ req[r].state = req[o].state /\ req[r].district = req[o].district
         /\ req[r].finYear = req[o].finYear /\ req[r].month = req[o].month

StartTwin(r) ==
  /\ \A o \in Reqs : o < r => Active(req[o])
  /\ Start(r)
  /\ Twins'

NextPair ==
  \E r \in Reqs :
    \/ StartTwin(r)
    \/ handle(r)

SpecPair == Init /\ [][NextPair]_vars

----------------------------------------------------------------------------
(* DistrictController.compareDistricts and                                 *)
(* DataProcessingService.generateComparison                                *)

strUnknown == <<85,110,107,110,111,119,110>>

\* the lists of all the elements of S, each once
orderings(S) ==
  {l \in [1..Cardinality(S) -> S] : \A i, j \in 1..Cardinality(S) : l[i] = l[j] => i = j}

\* [...values].sort((a, b) => b - a): the values from greatest to least
sortDescending(values) ==
  LET n == Len(values)
      perms == {f \in [1..n -> 1..n] : \A i, j \in 1..n : f[i] = f[j] => i = j}
      f == CHOOSE g \in perms :
             \A i, j \in 1..n : i < j => values[g[i]] >= values[g[j]]
  IN [i \in 1..n |-> values[f[i]]]

\* sorted.indexOf(v), counted from 0
indexOf(sorted, v) ==
  (CHOOSE i \in 1..Len(sorted) :
     sorted[i] = v /\ \A j \in 1..(i - 1) : sorted[j] # v) - 1

\* lines 509-514: values.map(v => sorted.indexOf(v) + 1)
rankingOf(values) ==
  LET sorted == sortDescending(values)
  IN [i \in 1..Len(values) |-> indexOf(sorted, values[i]) + 1]

\* districtPerf.district?.districtName || 'Unknown'
districtNameOf(d, districtPerf) ==
  LET ds == {y \in d.districts : CiEq(y.districtCode, districtPerf.districtCode)}
  IN IF ds = {} THEN strUnknown
     ELSE IF Truthy((CHOOSE y \in ds : TRUE).districtName)
     THEN (CHOOSE y \in ds : TRUE).districtName
     ELSE strUnknown

\* generateComparison(districts): the names, the seven lists of values,
\* and for each list its ranking
generateComparison(d, districts) ==
  LET n == Len(districts)
      metrics ==
        [averageDaysEmployment |-> [i \in 1..n |-> districts[i].averageDaysEmployment],
         averageWageRate       |-> [i \in 1..n |-> districts[i].averageWageRate],
         totalHouseholdsWorked |-> [i \in 1..n |-> districts[i].totalHouseholdsWorked],
         womenPersondays       |-> [i \in 1..n |-> districts[i].womenPersondays],
         paymentWithin15Days   |-> [i \in 1..n |-> districts[i].paymentWithin15Days],
         completedWorks        |-> [i \in 1..n |-> districts[i].completedWorks],
         performanceScores     |-> [i \in 1..n |-> calculatePerformanceScore(districts[i])]]
  IN [districts |-> [i \in 1..n |-> districtNameOf(d, districts[i])],
      metrics   |-> metrics,
      rankings  |-> [m \in DOMAIN metrics |-> rankingOf(metrics[m])]]

\* lines 614-621: District.findAll, the named districts of the state
districtsNamed(d, districtNames, stateCode) ==
  {y \in d.districts :
     /\ \E i \in 1..Len(districtNames) :
          CiEq(y.districtName, toUpperCase(districtNames[i]))
     /\ CiEq(y.stateCode, stateCode)}

\* lines 625-651: DistrictPerformance.findAll, the rows of these districts
\* in the period, every month of it
performancesOf(d, districts, finYear) ==
  {x \in d.perfs :
     /\ \E y \in districts : CiEq(x.districtCode, y.districtCode)
     /\ CiEq(x.finYear, finYear)}

\* the answers of compareDistricts without a comparison
compareFailed(body, status) ==
  [noCompare EXCEPT !.districtNames = body.districtNames, !.status = status]

\* compareDistricts(req, res) on storage d: found is what State.findOne
\* returned, data the list DistrictPerformance.findAll returned
compareDistricts(d, body, fault, found, data) ==
  IF Len(body.districtNames) < 2 THEN compareFailed(body, 400)
  ELSE IF ~Truthy(body.state) \/ ~Truthy(body.finYear) THEN compareFailed(body, 400)
  ELSE IF fault THEN compareFailed(body, 500)
  ELSE IF found = {} THEN compareFailed(body, 404)
  ELSE LET comparison == generateComparison(d, data)
       IN [n |-> 0, districtNames |-> body.districtNames, status |-> 200,
           count |-> Len(data), districts |-> comparison.districts,
           metrics |-> comparison.metrics, rankings |-> comparison.rankings]

\* calls of compareDistricts made by the direct caller
MaxCompares == 1

\* the bodies the direct caller posts
CompareInputs ==
  {[districtNames |-> <<sIdukki, sWAYANAD>>, state |-> sKerala, finYear |-> sFY2425],
   [districtNames |-> <<sIdukki, sWAYANAD>>, state |-> sKerala, finYear |-> sFY2324],
   [districtNames |-> <<sIdukki>>,           state |-> sKerala, finYear |-> sFY2425]}

\* the direct caller posts a comparison and keeps the answer
Compare ==
  /\ caller.pc = "idle"
  /\ caller.cmp.n < MaxCompares
  /\ \E body \in CompareInputs, fault \in BOOLEAN :
       \E found \in findOne(stateMatches(db, body.state)) :
         LET stateCode == IF found = {} THEN <<>>
                          ELSE (CHOOSE x \in found : TRUE).stateCode
             districts == districtsNamed(db, body.districtNames, stateCode)
         IN \E data \in orderings(performancesOf(db, districts, body.finYear)) :
              caller' = [caller EXCEPT
                           !.cmp = [compareDistricts(db, body, fault, found, data)
                                      EXCEPT !.n = caller.cmp.n + 1]]
  /\ UNCHANGED <<db, autoInc, clock, tx, cache, upstream, asked, req>>

\* the direct caller stores what the upstream lists
Load ==
  CallWith({l \in SeqsUpTo(UpstreamUniverse, MaxBatch) : inUpstreamOrder(l)})

NextCompare ==
  \/ Load
  \/ processAndStoreDataBulk(0)
  \/ Compare

SpecCompare == InitMonths /\ [][NextCompare]_vars

----------------------------------------------------------------------------
(* The direct caller derives district codes *)

\* calls of generateDistrictCode made by the direct caller
MaxDerives == 2

sPolygenelubricants ==
  <<112,111,108,121,103,101,110,101,108,117,98,114,105,99,97,110,116,115>>
sTHIRUVANANTHAPURAM ==
  <<84,72,73,82,85,86,65,78,65,78,84,72,65,80,85,82,65,77>>
sZzzzzz == <<122,122,122,122,122,122>>

\* the names the direct caller passes: none, the names of up to three
\* letters over 'A' and 'z', and names whose hash leaves 31 bits
CodeNames ==
  UNION {[1..k -> {65, 122}] : k \in 0..3}
    \cup {sPolygenelubricants, sTHIRUVANANTHAPURAM, sIDUKKI, sZzzzzz}

\* the state codes the direct caller passes
CodeStates == {<<>>, <<75,76>>, strXX}

\* the direct caller calls generateDistrictCode and keeps what it passed
\* and what came back
Derive ==
  /\ caller.pc = "idle"
  /\ caller.gen.n < MaxDerives
  /\ \E districtName \in CodeNames, stateCode \in CodeStates :
       caller' = [caller EXCEPT
                    !.gen = [n            |-> caller.gen.n + 1,
                             districtName |-> districtName,
                             stateCode    |-> stateCode,
                             code         |-> generateDistrictCode(districtName, stateCode)]]
  /\ UNCHANGED <<db, autoInc, clock, tx, cache, upstream, asked, req>>

NextCode == Derive

SpecCode == Init /\ [][NextCode]_vars

----------------------------------------------------------------------------
(* The direct caller grades districts *)

\* calls of getPerformanceGrade made by the direct caller
MaxGrades == 2

\* the districts the direct caller passes: the five fields the score reads,
\* the DECIMAL(n,2) ones in hundredths; each term of the score takes its
\* least and greatest value and values between
GradeInputs ==
  [averageDaysEmployment : {0, 3333, 6667, 10000, 12000},
   paymentWithin15Days   : {0, 3600, 7600, 9600, 10000},
   womenPersondays       : {0, 2500, 5000},
   completedWorks        : {0, 1},
   ongoingWorks          : {0, 1}]

\* the direct caller calls getPerformanceGrade and keeps what it passed,
\* what came back, and the score and grade of the call before
Grade ==
  /\ caller.pc = "idle"
  /\ caller.grd.n < MaxGrades
  /\ \E district \in GradeInputs :
       caller' = [caller EXCEPT
                    !.grd = [n        |-> caller.grd.n + 1,
                             district |-> district,
                             grade    |-> getPerformanceGrade(district),
                             prev     |-> [score |-> calculatePerformanceScore(caller.grd.district),
                                           grade |-> caller.grd.grade]]]
  /\ UNCHANGED <<db, autoInc, clock, tx, cache, upstream, asked, req>>

NextGrade == Grade

SpecGrade == Init /\ [][NextGrade]_vars

----------------------------------------------------------------------------
(* The direct caller ingests records with other period labels *)

\* Idukki in January without a period label, with '2024' and with 'FY-2024'
recNoPeriod == [recIdukki EXCEPT !.fin_year = <<>>]
recYearOnly == [recIdukki EXCEPT !.fin_year = <<50,48,50,52>>]
recPeriodWords == [recIdukki EXCEPT !.fin_year = <<70,89,45,50,48,50,52>>]

PeriodUniverse == {recIdukki, recNoPeriod, recYearOnly, recPeriodWords}

LoadPeriods == CallWith(SeqsUpTo(PeriodUniverse, MaxBatch))

NextPeriods ==
  \/ LoadPeriods
  \/ processAndStoreDataBulk(0)

SpecPeriods == Init /\ [][NextPeriods]_vars

----------------------------------------------------------------------------
(* The direct caller ingests a month of a district, the month as           *)
(* republished, and a month of another district                            *)

RevisionUniverse == {recIdukki, recIdukkiRevised, recWayanad}

\* the direct caller passes a batch of these records
LoadRevisions == CallWith(SeqsUpTo(RevisionUniverse, MaxBatch))

NextRevisions ==
  \/ LoadRevisions
  \/ processAndStoreDataBulk(0)

SpecRevisions == Init /\ [][NextRevisions]_vars

----------------------------------------------------------------------------
(* The direct caller ingests records that name a district in several ways  *)

sTAMILNADU == <<84,65,77,73,76,32,78,65,68,85>>

\* Idukki with its name in small letters
recIdukkiCased == [recIdukki EXCEPT !.district_name = sIdukki]

\* Idukki with a district code supplied by the upstream
recIdukkiCoded == [recIdukki EXCEPT !.district_code = <<51,50,48,49>>]

\* a Kerala record and a Tamil Nadu record without a district name
recUnnamed == [recIdukki EXCEPT !.district_name = <<>>]
recUnnamedElsewhere == [recUnnamed EXCEPT !.state_name = sTAMILNADU]

DistrictUniverse ==
  {recIdukki, recIdukkiCased, recIdukkiCoded, recUnnamed, recUnnamedElsewhere}

LoadDistricts == CallWith(SeqsUpTo(DistrictUniverse, MaxBatch))

NextDistricts ==
  \/ LoadDistricts
  \/ processAndStoreDataBulk(0)

SpecDistricts == Init /\ [][NextDistricts]_vars

NextIngest ==
  \/ Call
  \/ processAndStoreDataBulk(0)

SpecIngest == Init /\ [][NextIngest]_vars

NextFetch == Fetch

SpecFetch == Init /\ [][NextFetch]_vars

----------------------------------------------------------------------------
(* Properties of ingestion (SpecIngest) *)

\* rows without their modification timestamp
untimed(rows) == {[f \in (DOMAIN x) \ {"updated_at"} |-> x[f]] : x \in rows}

\* the same rows in the five tables, modification timestamp aside
SameRows(a, b) ==
  /\ a.states = b.states
  /\ a.districts = b.districts
  /\ a.finYears = b.finYears
  /\ untimed(a.perfs) = untimed(b.perfs)
  /\ Cardinality(a.perfs) = Cardinality(b.perfs)
  /\ a.exts = b.exts

\* C1: a batch ingested twice in a row leaves the five tables with the
\* rows the first ingestion left (modification timestamp aside); the second
\* pass adds no DistrictPerformance and no DistrictExtendedMetrics row.
\* caller.again marks the second of two calls with one batch, the first of
\* which returned; caller.before is storage as the second call found it.
IdempotentIngestion ==
  (caller.again /\ caller.outcome = "ok") =>
     /\ SameRows(db, caller.before)
     /\ Cardinality(db.perfs) = Cardinality(caller.before.perfs)
     /\ Cardinality(db.exts) = Cardinality(caller.before.exts)

\* a batch of two records for one key was ingested twice and rows are there
IdempotentIngestionWitness ==
  /\ caller.again /\ caller.outcome = "ok"
  /\ Len(caller.apiData) = 2
  /\ db.perfs # {} /\ db.exts # {}
  /\ \E x \in db.perfs : \E y \in caller.before.perfs :
       x.id = y.id /\ x.updated_at > y.updated_at

\* C2: while an ingestion runs, and after it failed, committed storage is
\* what it was before the call; a failed step leads to the catch block,
\* which rolls back and rethrows.
AllOrNothing ==
  /\ [](/\ tx.open => db = caller.before
        /\ caller.outcome = "error" => (db = caller.before /\ ~tx.open))
  /\ [][(tx.open /\ tx.step = "catch") =>
          (~tx'.open /\ caller'.outcome = "error" /\ db' = caller.before)]_vars

\* an ingestion failed after its DistrictPerformance rows were written
\* (their ids are spent) and storage is as before the call
AllOrNothingWitness ==
  /\ caller.outcome = "error"
  /\ db = caller.before
  /\ db.perfs # {}
  /\ autoInc.perf > 2 + Cardinality(db.perfs)

\* the foreign keys of the four referring tables
ReferentialIntegrity(d) ==
  /\ \A x \in d.districts : \E y \in d.states : y.stateCode = x.stateCode
  /\ \A x \in d.perfs :
       /\ \E y \in d.districts : y.districtCode = x.districtCode
       /\ \E y \in d.finYears : y.finYear = x.finYear
  /\ \A x \in d.exts : \E y \in d.perfs : y.id = x.performanceId

\* inside one ingestion a table is written in its own step only
WriteOrder ==
  (tx.open /\ tx'.open) =>
     /\ tx'.work.states # tx.work.states => tx.step = "states"
     /\ tx'.work.districts # tx.work.districts => tx.step = "districts"
     /\ tx'.work.finYears # tx.work.finYears => tx.step = "finYears"
     /\ tx'.work.perfs # tx.work.perfs => tx.step = "performance"
     /\ tx'.work.exts # tx.work.exts => tx.step = "extended"
     /\ tx'.step # tx.step =>
          <<tx.step, tx'.step>> \in
             {<<"states", "districts">>, <<"districts", "finYears">>,
              <<"finYears", "performance">>, <<"performance", "extended">>,
              <<"extended", "commit">>} \cup
             {<<st, "catch">> : st \in {"states", "districts", "finYears",
                                        "performance", "extended", "commit"}}

\* C3: every reference in committed storage, and in the writes of the
\* running ingestion, resolves to an existing row; the writes of an
\* ingestion go State, District, FinancialYear, DistrictPerformance,
\* DistrictExtendedMetrics.
ReferentialOrder ==
  /\ [](ReferentialIntegrity(db) /\ (tx.open => ReferentialIntegrity(tx.work)))
  /\ [][WriteOrder]_vars

\* two districts of one state with their rows are committed
ReferentialOrderWitness ==
  /\ Cardinality(db.districts) = 2
  /\ Cardinality(db.perfs) = 2
  /\ Cardinality(db.exts) = 2
  /\ Cardinality(db.states) = 1

\* the last record of the batch with the natural key of recs[i]
lastOfKey(recs, i) ==
  CHOOSE j \in i..Len(recs) :
    /\ sameNaturalKey(recs[j], recs[i])
    /\ \A k \in (j + 1)..Len(recs) : ~sameNaturalKey(recs[k], recs[i])

\* C4: no two DistrictPerformance rows have one (districtCode, finYear,
\* month), in committed storage and in the writes of a running ingestion;
\* after the performance step each key of the batch has one row, the row
\* it had before if there was one, with the numeric fields of the batch's
\* last record for that key.
NaturalKeyUnique ==
  /\ \A x, y \in db.perfs : sameNaturalKey(x, y) => x = y
  /\ \A x, y \in tx.work.perfs : sameNaturalKey(x, y) => x = y
  /\ (tx.open /\ tx.step \in {"extended", "commit"}) =>
       LET recs == preparePerformanceRecords(tx.apiData)
       IN \A i \in 1..Len(recs) :
            \E x \in tx.work.perfs :
              /\ sameNaturalKey(x, recs[i])
              /\ \A f \in updateOnDuplicate : x[f] = recs[lastOfKey(recs, i)][f]
              /\ \A y \in db.perfs : sameNaturalKey(y, recs[i]) => y.id = x.id

\* a batch with one key twice is about to commit over a stored row of that
\* key, whose figures it has replaced
NaturalKeyUniqueWitness ==
  /\ tx.open /\ tx.step = "commit"
  /\ Len(tx.apiData) = 2
  /\ LET recs == preparePerformanceRecords(tx.apiData)
     IN /\ sameNaturalKey(recs[1], recs[2])
        /\ recs[1].completedWorks # recs[2].completedWorks
        /\ \E y \in db.perfs : \E x \in tx.work.perfs :
             /\ sameNaturalKey(y, recs[1])
             /\ x.id = y.id
             /\ y.completedWorks # x.completedWorks
             /\ x.completedWorks = recs[2].completedWorks

----------------------------------------------------------------------------
(* Properties of getDistrictData (Spec, SpecPair) *)

\* processAndStoreDataBulk on storage d when every statement succeeds:
\* the five writes in a row, ids from ids, at the time now
storeBulk(d, apiData, ids, now) ==
  LET s1 == bulkUpsertStates(d, extractUniqueStates(apiData))
      s2 == bulkUpsertDistricts(s1.db, extractUniqueDistricts(apiData))
      s3 == bulkUpsertFinancialYears(s2.db, extractUniqueFinYears(apiData))
      s4 == bulkUpsertPerformance(s3.db, preparePerformanceRecords(apiData),
                                  ids.perf, now)
      s5 == bulkUpsertExtendedMetrics(s4.db, s4.result, ids.ext)
  IN [ok |-> s1.ok /\ s2.ok /\ s3.ok /\ s4.ok, db |-> s5.db]

\* the rows of d that answer the query of rq: the state and the district
\* (when given) by name, the period, the month (when given)
localMatches(d, rq) ==
  {x \in d.perfs :
     /\ CiEq(x.finYear, rq.finYear)
     /\ Truthy(rq.month) => CiEq(x.month, toUpperCase(rq.month))
     /\ \E y \in d.districts : \E st \in d.states :
          /\ CiEq(y.districtCode, x.districtCode)
          /\ CiEq(y.stateCode, st.stateCode)
          /\ Like(st.stateName, toUpperCase(rq.state))
          /\ Truthy(rq.district) => Like(y.districtName, toUpperCase(rq.district))}

\* the rows of d written by the ingestions of rq
rowsIngested(d, rq) ==
  {x \in d.perfs :
     \E k \in 1..Len(rq.ingested) :
       LET recs == preparePerformanceRecords(rq.ingested[k])
       IN \E i \in 1..Len(recs) : sameNaturalKey(x, recs[i])}

\* the rows of a response
rowsOf(resp) == {resp.rows[i] : i \in 1..Len(resp.rows)}

\* both handlers missed the state, fetched, and ingested one same batch
\* once, with success
BothReconciled ==
  \A r \in Reqs :
    /\ req[r].pc = "done"
    /\ ~req[r].stateLocal
    /\ req[r].nIngest = 1
    /\ Len(req[r].ingested) = 1
    /\ req[r].ingested = req[1].ingested

\* C5: two requests for one query that both miss locally, both fetch and
\* both ingest the same records, in any interleaving, leave storage with
\* the rows of a single ingestion of those records (modification
\* timestamp aside): no row of any of the five tables is there twice.
ConcurrentReconciliation ==
  BothReconciled =>
    SameRows(db, storeBulk(emptyDb, req[1].ingested[1], [perf |-> 1, ext |-> 1], 1).db)

\* both handlers asked the upstream itself, and the second ingestion wrote
\* over the rows of the first
ConcurrentReconciliationWitness ==
  /\ BothReconciled
  /\ \A r \in Reqs : req[r].nHttp >= 1
  /\ \E x \in db.perfs : x.updated_at = 2
  /\ db.exts # {}

\* C6: a request calls fetchDistrictData at most 6 times, whatever
\* storage holds and whatever the calls return.
FetchBound == \A r \in Reqs : req[r].nFetch <= 6

\* a request that made four calls has been answered
FetchBoundWitness ==
  \E r \in Reqs : req[r].pc = "done" /\ req[r].nFetch = 4

\* C7: a request whose state and district (when given) are found locally
\* and whose local query returns rows calls neither fetchDistrictData nor
\* processAndStoreDataBulk and is answered 200 with the rows.
ServedLocally ==
  \A r \in Reqs :
    (/\ req[r].pc = "done"
     /\ req[r].stateLocal
     /\ Truthy(req[r].district) => req[r].districtLocal
     /\ req[r].firstHit)
    => /\ req[r].nFetch = 0 /\ req[r].nHttp = 0 /\ req[r].nIngest = 0
       /\ req[r].resp.status = 200
       /\ rowsOf(req[r].resp) = localMatches(db, req[r])

\* a request naming a district was answered from local rows
ServedLocallyWitness ==
  \E r \in Reqs :
    /\ req[r].pc = "done"
    /\ Truthy(req[r].district)
    /\ req[r].stateLocal /\ req[r].districtLocal /\ req[r].firstHit
    /\ req[r].resp.status = 200

\* C8: a request that ingested upstream records (of the requested period
\* or of a fallback period) with success, and met no storage error, is
\* answered 200 with the rows it ingested that match its state, period,
\* district and month.
ReconciledQueryable ==
  \A r \in Reqs :
    LET mine == rowsIngested(db, req[r]) \cap localMatches(db, req[r])
    IN (req[r].pc = "done" /\ ~req[r].dbFault /\ mine # {})
       => /\ req[r].resp.status = 200
          /\ mine \subseteq rowsOf(req[r].resp)

\* C9: a request that went through the fallback periods, without storage
\* error: if a fallback period returned records the answer is 'no data for
\* the requested period' and suggests only periods that were asked for and
\* returned records; if none did the answer is 'state not found'.
FallbackOutcome ==
  \A r \in Reqs :
    (req[r].pc = "done" /\ req[r].fbIdx > 0 /\ ~req[r].dbFault)
    => IF req[r].fbYielded # {}
       THEN /\ req[r].resp.kind = "noDataForYear"
            /\ req[r].resp.suggest \subseteq req[r].fbYielded
       ELSE req[r].resp.kind = "stateNotFoundNoApi"

\* C10: a request whose state was found locally and whose
\* fetchDistrictData call for a missing district or an empty result threw
\* is not answered 503 or 500; if storage holds rows matching the query it
\* is answered 200 with them.
BackfillErrorTolerated ==
  \A r \in Reqs :
    (req[r].pc = "done" /\ req[r].stateLocal /\ req[r].fetchErr)
    => /\ req[r].resp.status \notin {500, 503}
       /\ localMatches(db, req[r]) # {} =>
            /\ req[r].resp.status = 200
            /\ rowsOf(req[r].resp) = localMatches(db, req[r])

\* the call of step 5 threw for a request with a local state and the
\* request was answered 404
BackfillErrorToleratedWitness ==
  \E r \in Reqs :
    /\ req[r].pc = "done"
    /\ req[r].stateLocal /\ req[r].fetchErr
    /\ req[r].resp.kind = "noPerformanceData"

\* C11: a request that called fetchDistrictData, every call of which
\* threw, while storage holds no row matching the query and no storage
\* operation failed, is answered 503 (upstream unavailable), whether its
\* state is known locally or not.
UnavailableWithoutLocalData ==
  \A r \in Reqs :
    (/\ req[r].pc = "done"
     /\ req[r].nFetch > 0 /\ ~req[r].fetchOk
     /\ ~req[r].dbFault
     /\ localMatches(db, req[r]) = {})
    => req[r].resp.status = 503

\* C12: a request in which a call of processAndStoreDataBulk threw (the
\* request made more calls than it had batches stored) is answered with
\* the internal error outcome (500), never 503, 404 or 200.
StorageFailureIsHard ==
  \A r \in Reqs :
    (req[r].pc = "done" /\ req[r].nIngest > Len(req[r].ingested))
    => /\ req[r].resp.status = 500
       /\ req[r].resp.kind = "failed"

\* the request of handler r lacks the state name or the financial year
Invalid(rq) == rq.served > 0 /\ (~Truthy(rq.state) \/ ~Truthy(rq.finYear))

\* C13: a request without state name or without financial year is
\* answered 400 in the step that receives it: it never stands at a storage
\* read, a cache access, an upstream call or an ingestion, it has made
\* none, and the step leaves storage, the id counters, the transaction and
\* the cache as they were.
ValidationNoSideEffect ==
  /\ [](\A r \in Reqs :
          Invalid(req[r]) =>
            /\ req[r].pc = "done"
            /\ req[r].resp.status = 400 /\ req[r].resp.kind = "validation"
            /\ req[r].nFetch = 0 /\ req[r].nHttp = 0 /\ req[r].nIngest = 0
            /\ ~req[r].stateLocal /\ ~req[r].firstHit /\ ~req[r].dbFault)
  /\ [][\A r \in Reqs :
          (req[r].served # req'[r].served /\ Invalid(req'[r]))
          => /\ db' = db /\ autoInc' = autoInc /\ clock' = clock
             /\ tx' = tx /\ cache' = cache]_vars

\* a request without state name was answered 400 while storage and the
\* cache held the records of an earlier request
ValidationNoSideEffectWitness ==
  \E r \in Reqs :
    /\ req[r].pc = "done" /\ req[r].resp.status = 400
    /\ ~Truthy(req[r].state)
    /\ db.perfs # {}
    /\ DOMAIN cache # {}

----------------------------------------------------------------------------
(* Properties of fetchDistrictData and CacheService (SpecFetch) *)

\* the call of fetchDistrictData the direct caller made last
lastFetch == caller.fetch

\* the same call on an empty cache whose transport works
onEmptyCache ==
  fetchDistrictData(<<>>, lastFetch.args, TRUE, TRUE, lastFetch.ans)

\* C14: when the transport of the cache fails, get returns null and set
\* returns false, neither throws and set stores nothing; fetchDistrictData
\* throws only when the request to the upstream failed; with get failing
\* it returns or throws what it does on an empty cache, asking the
\* upstream once, and with set failing it leaves the cache as it was.
CacheFailureIsMiss ==
  LET f == lastFetch
      key == cacheKey(f.args)
      put == cacheSet(f.before, key, f.ans.records, FALSE)
  IN f.n > 0 =>
       /\ cacheGet(f.before, key, FALSE) = [threw |-> FALSE, value |-> {}]
       /\ ~put.threw /\ ~put.ok /\ put.cache = f.before
       /\ f.out.threw => (f.ans.kind = "error" /\ f.out.http = 1)
       /\ ~f.upGet =>
            /\ f.out.threw = onEmptyCache.threw
            /\ f.out.records = onEmptyCache.records
            /\ f.out.http = onEmptyCache.http
       /\ ~f.upSet => cache = f.before

\* with the transport down at get and at set, and another list cached
\* under the key, the call returned the records of the upstream
CacheFailureIsMissWitness ==
  LET f == lastFetch
      key == cacheKey(f.args)
  IN /\ f.n > 0 /\ ~f.upGet /\ ~f.upSet
     /\ key \in DOMAIN f.before
     /\ f.ans.kind = "records" /\ Len(f.ans.records) > 0
     /\ f.before[key] # f.ans.records
     /\ ~f.out.threw /\ f.out.records = f.ans.records

\* C15: when get delivers an entry under the key of (stateName, finYear,
\* districtName or 'all'), fetchDistrictData returns that entry, makes no
\* request to the upstream and leaves the cache as it was; otherwise it
\* makes exactly one request.
CacheHitNoNetwork ==
  LET f == lastFetch
      key == cacheKey(f.args)
  IN f.n > 0 =>
       IF f.upGet /\ key \in DOMAIN f.before
       THEN /\ ~f.out.threw
            /\ f.out.records = f.before[key]
            /\ f.out.http = 0
            /\ cache = f.before
       ELSE f.out.http = 1

\* a hit on a cached empty list while the upstream has a record to give
CacheHitNoNetworkWitness ==
  LET f == lastFetch
      key == cacheKey(f.args)
  IN /\ f.n > 0 /\ f.upGet
     /\ key \in DOMAIN f.before
     /\ f.before[key] = <<>>
     /\ f.ans.kind = "records" /\ Len(f.ans.records) > 0
     /\ f.out.records = <<>> /\ f.out.http = 0

\* C16: when fetchDistrictData asks the upstream, an answer without
\* records makes it return the empty list without throwing, and a failed
\* request makes it throw: it returns nothing then, and no empty list.
NoResultsIsNotFailure ==
  LET f == lastFetch
  IN (f.n > 0 /\ f.out.http = 1) =>
       /\ f.ans.kind = "norecords" => (~f.out.threw /\ f.out.records = <<>>)
       /\ f.ans.kind = "error" => f.out.threw

\* the request to the upstream failed after a miss on a working cache
\* that holds other entries, and the call threw
NoResultsIsNotFailureWitness ==
  LET f == lastFetch
  IN /\ f.n > 0 /\ f.upGet /\ f.upSet
     /\ f.before # <<>>
     /\ f.ans.kind = "error"
     /\ f.out.threw /\ f.out.http = 1
     /\ cache = f.before

----------------------------------------------------------------------------
(* Properties of the derived metrics *)

\* C17: the score of every stored performance row, computed from its
\* averageDaysEmployment, paymentWithin15Days, womenPersondays,
\* completedWorks and ongoingWorks, is within 0..100.
ScoreWithinRange ==
  \A x \in db.perfs :
    /\ calculatePerformanceScore(x) >= 0
    /\ calculatePerformanceScore(x) <= 100

\* the grade of a score: A from 80, B from 60, C from 40, D from 20, else E
gradeFor(score) ==
  CASE score >= 80 -> <<65>>
    [] score >= 60 /\ score < 80 -> <<66>>
    [] score >= 40 /\ score < 60 -> <<67>>
    [] score >= 20 /\ score < 40 -> <<68>>
    [] OTHER -> <<69>>

\* C18: every record of a 200 response is a stored row, in the order of
\* the result, whose performanceScore is calculatePerformanceScore of the
\* stored metric fields of that row and whose performanceGrade is the
\* grade of that score, whatever the score and grade columns hold.
RecomputedOnRead ==
  \A r \in Reqs :
    (req[r].pc = "done" /\ req[r].resp.status = 200)
    => /\ Len(req[r].resp.data) = Len(req[r].resp.rows)
       /\ Len(req[r].resp.data) > 0
       /\ \A i \in 1..Len(req[r].resp.data) :
            LET item == req[r].resp.data[i]
            IN \E x \in db.perfs :
                 /\ x = req[r].resp.rows[i]
                 /\ item.id = x.id
                 /\ item.performanceScore = calculatePerformanceScore(x)
                 /\ item.performanceGrade = gradeFor(item.performanceScore)

\* a response gave the score 56 and the grade C for a row whose score
\* column holds 0 and whose grade column is null
RecomputedOnReadWitness ==
  \E r \in Reqs :
    /\ req[r].pc = "done" /\ req[r].resp.status = 200
    /\ \E i \in 1..Len(req[r].resp.data) :
         /\ req[r].resp.data[i].performanceScore = 56
         /\ req[r].resp.data[i].performanceGrade = <<67>>
         /\ req[r].resp.rows[i].performanceScore = 0
         /\ req[r].resp.rows[i].performanceGrade = <<>>

\* C20: the freshness indicator of a 200 response is the greatest
\* modification timestamp of the rows returned.
FreshnessIsLatest ==
  \A r \in Reqs :
    (req[r].pc = "done" /\ req[r].resp.status = 200)
    => /\ \E x \in rowsOf(req[r].resp) : req[r].resp.lastUpdated = x.updated_at
       /\ \A x \in rowsOf(req[r].resp) : req[r].resp.lastUpdated >= x.updated_at

----------------------------------------------------------------------------
(* Properties of compareDistricts (SpecCompare) *)

\* the named districts are districts of the state asked for
NamedInState(d, body) ==
  \A k \in 1..Len(body.districtNames) :
    \E y \in d.districts : \E st \in stateMatches(d, body.state) :
      /\ CiEq(y.districtName, toUpperCase(body.districtNames[k]))
      /\ CiEq(y.stateCode, st.stateCode)

\* an entry of a ranking is 1 + the number of greater values, which is 1 +
\* the first index of its value among the values sorted descending
RankedDescending(c) ==
  \A m \in DOMAIN c.rankings :
    /\ Len(c.rankings[m]) = Len(c.metrics[m])
    /\ \A i \in 1..Len(c.metrics[m]) :
         c.rankings[m][i] =
           1 + Cardinality({j \in 1..Len(c.metrics[m]) : c.metrics[m][j] > c.metrics[m][i]})

\* C19: a comparison of N named districts of a state, answered 200, has
\* rankings of exactly N entries, one for each named district; an entry
\* is 1 + the first index of the district's value among the values sorted
\* descending, so equal values have equal ranks.
CompareRanking ==
  [][\A body \in CompareInputs :
       (/\ caller'.cmp.n # caller.cmp.n
        /\ caller'.cmp.status = 200
        /\ caller'.cmp.districtNames = body.districtNames
        /\ NamedInState(db, body))
       => LET c == caller'.cmp
              N == Len(body.districtNames)
          IN /\ RankedDescending(c)
             /\ \A m \in DOMAIN c.rankings : Len(c.rankings[m]) = N
             /\ Len(c.districts) = N
             /\ \A k \in 1..N :
                  \E i \in 1..Len(c.districts) :
                    CiEq(c.districts[i], toUpperCase(body.districtNames[k]))]_vars

----------------------------------------------------------------------------
(* Further properties of ingestion (SpecIngest) *)

\* C21: an ingestion leaves every DistrictExtendedMetrics row that was
\* stored before it as it was, in its own writes and in what it commits,
\* while each DistrictPerformance row whose key is in the batch keeps its
\* id and takes the numeric fields of the batch's last record for the key.
ExtendedInsertOnly ==
  /\ (tx.open /\ tx.owner = 0) => \A e \in caller.before.exts : e \in tx.work.exts
  /\ caller.outcome = "ok" =>
       /\ \A e \in caller.before.exts : e \in db.exts
       /\ LET recs == preparePerformanceRecords(caller.apiData)
          IN \A i \in 1..Len(recs) : \A y \in caller.before.perfs :
               sameNaturalKey(y, recs[i]) =>
                 \E x \in db.perfs :
                   /\ x.id = y.id
                   /\ \A f \in updateOnDuplicate : x[f] = recs[lastOfKey(recs, i)][f]

\* an ingestion committed other figures for a DistrictPerformance row that
\* had its DistrictExtendedMetrics row, and that row is still there
ExtendedInsertOnlyWitness ==
  /\ caller.outcome = "ok"
  /\ \E y \in caller.before.perfs : \E e \in caller.before.exts : \E x \in db.perfs :
       /\ e.performanceId = y.id
       /\ x.id = y.id
       /\ x.completedWorks # y.completedWorks
       /\ e \in db.exts

\* the District rows stored for the district and state a record names
districtRowsOf(d, u) ==
  {x \in d.districts :
     x.districtName = toUpperCase(u.district_name) /\ x.stateCode = stateCodeOf(u)}

\* the (district name, state code) pair each record of the universe names,
\* and the code generateDistrictCode gives for the pair
derivedOf ==
  [u \in IngestUniverse |->
     [districtName |-> toUpperCase(u.district_name),
      stateCode    |-> stateCodeOf(u),
      code         |-> generateDistrictCode(u.district_name, stateCodeOf(u))]]

\* the District rows of d are one per pair, and the row of a record that
\* carries no code has the code derived for its pair
codesDerived(d) ==
  /\ \A x, y \in d.districts :
       (x.districtName = y.districtName /\ x.stateCode = y.stateCode) => x = y
  /\ \A x \in d.districts : \A u \in IngestUniverse :
       ( /\ ~Truthy(u.district_code)
         /\ x.districtName = derivedOf[u].districtName
         /\ x.stateCode = derivedOf[u].stateCode ) => x.districtCode = derivedOf[u].code

sourceOf ==
  [approvedLabourBudget   |-> "Approved_Labour_Budget",
   averageWageRate        |-> "Average_Wage_rate_per_day_per_person",
   averageDaysEmployment  |-> "Average_days_of_employment_provided_per_Household",
   totalHouseholdsWorked  |-> "Total_Households_Worked",
   totalIndividualsWorked |-> "Total_Individuals_Worked",
   completedWorks         |-> "Number_of_Completed_Works",
   ongoingWorks           |-> "Number_of_Ongoing_Works",
   womenPersondays        |-> "Women_Persondays",
   scPersondays           |-> "SC_persondays",
   stPersondays           |-> "ST_persondays",
   totalExpenditure       |-> "Total_Exp",
   wages                  |-> "Wages",
   households100Days      |-> "Total_No_of_HHs_completed_100_Days_of_Wage_Employment",
   paymentWithin15Days    |-> "percentage_payments_gererated_within_15_days"]

\* the numeric fields read with parseFloat
decimalFields ==
  {"averageWageRate", "averageDaysEmployment", "womenPersondays", "paymentWithin15Days"}

\* the value is absent, empty or does not begin with a number
unparsable(f, v) ==
  IF f \in decimalFields THEN parseFloat(v).nan ELSE parseInt(v).nan

\* each numeric field of each record preparePerformanceRecords makes of
\* the batch is a number, and is 0 where the value of the upstream record
\* is absent, empty or does not begin with a number
numbersOrZero(apiData) ==
  LET recs == preparePerformanceRecords(apiData)
  IN \A i \in 1..Len(recs) : \A f \in DOMAIN sourceOf :
       /\ recs[i][f] \in Int
       /\ unparsable(f, apiData[i][sourceOf[f]]) => recs[i][f] = 0

\* numbersOrZero of every batch the caller can pass
batchesNumbersOrZero == \A b \in Batches : numbersOrZero(b)

\* C29: each numeric field of each record preparePerformanceRecords makes
\* of a batch the caller can pass is a number, and is 0 where the value of
\* the upstream record is absent, empty or does not begin with a number;
\* each numeric field of each DistrictPerformance row, committed or
\* written by a running ingestion, is a number.
NumericNeverNull ==
  /\ \A x \in db.perfs \cup tx.work.perfs : \A f \in DOMAIN sourceOf : x[f] \in Int
  /\ batchesNumbersOrZero

\* a record whose completed works read 'n/a' and whose wage rate is absent
\* was ingested: its row has 0 for both and its other figures
NumericNeverNullWitness ==
  /\ caller.outcome = "ok"
  /\ \E i \in 1..Len(caller.apiData) :
       /\ caller.apiData[i].Number_of_Completed_Works = <<110,47,97>>
       /\ caller.apiData[i].Average_Wage_rate_per_day_per_person = <<>>
       /\ \E x \in db.perfs :
            /\ sameNaturalKey(x, preparePerformanceRecords(caller.apiData)[i])
            /\ x.completedWorks = 0 /\ x.averageWageRate = 0
            /\ x.averageDaysEmployment = 12000 /\ x.ongoingWorks = 3

\* the label reads YYYY-YYYY
wellFormedPeriod(label) ==
  /\ Len(label) = 9
  /\ label[5] = 45
  /\ \A i \in {1, 2, 3, 4, 6, 7, 8, 9} : IsDigit(label[i])

\* the current year and the year after it
currentYearSpan ==
  [startYear |-> [nan |-> FALSE, val |-> CurrentYear],
   endYear   |-> [nan |-> FALSE, val |-> CurrentYear + 1]]

\* C30: for each record of a batch whose period label does not read
\* YYYY-YYYY, parseFinancialYear gives the current year and the year after
\* it, both integers; and the five writes of a batch that holds such a
\* label succeed, on storage as the call found it.
MalformedPeriodCommits ==
  LET b == caller.apiData
      malformed == {i \in 1..Len(b) : ~wellFormedPeriod(b[i].fin_year)}
  IN /\ \A i \in malformed : parseFinancialYear(b[i].fin_year) = currentYearSpan
     /\ (tx.open /\ tx.step = "states" /\ malformed # {}) =>
          storeBulk(db, b, autoInc, clock + 1).ok

----------------------------------------------------------------------------
(* Further properties of getDistrictData *)

\* the districts the records of a batch name
districtsOf(b) == {toUpperCase(b[i].district_name) : i \in 1..Len(b)}

\* C22: the first request, for a state and period without month, that
\* found storage empty, got records from the upstream and met no storage
\* fault made one fetch and one ingestion and is answered 200 with one row
\* per district of the answer; storage then holds one State, one
\* FinancialYear and one District, one DistrictPerformance and one
\* DistrictExtendedMetrics row per district.  A request that repeats a
\* request answered 200 makes no fetch and no network call, and is
\* answered 200 unless a read fails.
FirstSightBackfill ==
  \A r \in Reqs :
    LET rq == req[r]
    IN /\ (/\ rq.pc = "done" /\ rq.served = 1 /\ ~Truthy(rq.month)
           /\ ~rq.dbFault /\ Len(rq.ingested) >= 1) =>
            LET n == Cardinality(districtsOf(rq.ingested[1]))
            IN /\ rq.resp.status = 200
               /\ Len(rq.resp.data) = n
               /\ rq.nFetch = 1 /\ Len(rq.ingested) = 1
               /\ n = Len(rq.ingested[1])
               /\ Cardinality(db.states) = 1
               /\ Cardinality(db.districts) = n
               /\ Cardinality(db.finYears) = 1
               /\ Cardinality(db.perfs) = n
               /\ Cardinality(db.exts) = n
       /\ (rq.pc = "done" /\ rq.again) =>
            /\ rq.nFetch = 0 /\ rq.nHttp = 0
            /\ rq.resp.status = 200 \/ rq.dbFault

\* the request for a state and period was repeated and answered from
\* storage with the two rows the first one had backfilled: no network
\* call, one State, two Districts, one FinancialYear, two rows each
FirstSightBackfillWitness ==
  /\ req[1].pc = "done" /\ req[1].again /\ req[1].served = 2
  /\ req[1].resp.status = 200 /\ Len(req[1].resp.data) = 2
  /\ req[1].nHttp = 0
  /\ Cardinality(db.states) = 1 /\ Cardinality(db.districts) = 2
  /\ Cardinality(db.finYears) = 1
  /\ Cardinality(db.perfs) = 2 /\ Cardinality(db.exts) = 2

\* C24: a request is in the fallback periods only after its one call for
\* the requested period returned nothing; the periods are asked in the
\* order of fallbackYears, one call each; once a period has returned
\* records no later period is asked, and its batch is the only one the
\* request passes to processAndStoreDataBulk.
FallbackStopsAtFirst ==
  \A r \in Reqs :
    LET rq == req[r]
    IN rq.fbIdx > 0 =>
         /\ ~rq.stateLocal
         /\ rq.nFetch <= rq.fbIdx + 1
         /\ rq.pc = "fbfetch" => fetchArgs(rq).finYear = fallbackYears[rq.fbIdx]
         /\ rq.fbYielded # {} => rq.fbYielded = {fallbackYears[rq.fbIdx]}
         /\ rq.nIngest <= 1

\* the District rows the request would find under a state of its name
districtKnown(d, rq) ==
  \E st \in stateMatches(d, rq.state) :
    districtMatches(d, rq.district, st.stateCode) # {}

\* the request was answered after its state had been resolved
pastState(rq) ==
  /\ rq.pc = "done"
  /\ rq.resp.kind \in {"districtNotFound", "districtNotFoundAfterFetch",
                        "noPerformanceData", "data"}

\* C25: the backfill of a missing district is made by the first
\* buildWhereClause of a request with a district, by one fetchDistrictData
\* call that names the district; only a non-empty answer is ingested and
\* only then is the district looked up again.  A request that got past
\* its state and whose district is missing from storage is answered 404
\* 'District not found in state'; a request without district never is.
DistrictBackfillOnce ==
  \A r \in Reqs :
    LET rq == req[r]
    IN /\ rq.pc \in {"bwfetch", "bwingest", "bwrefind"} =>
            /\ rq.ctx = "main" /\ Truthy(rq.district)
            /\ rq.nFetch = (IF rq.stateLocal THEN 1 ELSE 2)
            /\ rq.pc = "bwfetch" =>
                 /\ fetchArgs(rq).districtName = rq.district
                 /\ rq.nIngest = (IF rq.stateLocal THEN 0 ELSE 1)
                 /\ ~districtKnown(db, rq)
            /\ rq.pc = "bwingest" => Len(rq.apiData) > 0
            /\ rq.pc = "bwrefind" => Len(rq.ingested) = rq.nIngest
       /\ (pastState(rq) /\ Truthy(rq.district) /\ ~districtKnown(db, rq)) =>
            /\ rq.resp.status = 404 /\ rq.resp.kind = "districtNotFound"
            /\ rq.nFetch = (IF rq.stateLocal THEN 1 ELSE 2)
       /\ (rq.pc = "done" /\ ~Truthy(rq.district)) =>
            rq.resp.kind \notin {"districtNotFound", "districtNotFoundAfterFetch"}

\* the state was found locally, the district was not, the one call that
\* named it returned nothing, and the request was answered 404 'District
\* not found in state'
DistrictBackfillOnceWitness ==
  \E r \in Reqs :
    /\ req[r].pc = "done" /\ req[r].resp.kind = "districtNotFound"
    /\ req[r].stateLocal /\ ~req[r].districtLocal
    /\ req[r].nFetch = 1 /\ req[r].nIngest = 0 /\ req[r].fetchOk
    /\ ~districtKnown(db, req[r])

\* the fetchDistrictData calls a request has made when it runs its first
\* local query: one if its state was missing, one if its district was
fetchesBeforeQuery(rq) ==
  (IF rq.stateLocal THEN 0 ELSE 1)
    + (IF Truthy(rq.district) /\ ~rq.districtLocal THEN 1 ELSE 0)

\* the request is in step 5: its first local query returned no rows
inStepFive(rq) ==
  \/ rq.pc \in {"s5fetch", "s5ingest", "requery"}
  \/ Active(rq) /\ rq.ctx = "refetch"

\* C26: a request whose first local query returned no rows makes one more
\* fetchDistrictData call, for its state and period and for its district
\* if it has one; only a non-empty answer is ingested, and the local query
\* is repeated once, after that ingestion.  A request that got as far as
\* its local query, while storage holds no row that answers it, is
\* answered 404 with the query (state, period, district or 'all', month
\* or 'all') and the periods 2022-2023 and 2023-2024 to try.
EmptyResultOneBackfill ==
  \A r \in Reqs :
    LET rq == req[r]
    IN /\ inStepFive(rq) =>
            /\ rq.nFetch = fetchesBeforeQuery(rq) + 1
            /\ ~rq.firstHit
            /\ rq.pc = "s5fetch" =>
                 /\ fetchArgs(rq) = [stateName |-> rq.state, finYear |-> rq.finYear,
                                     districtName |-> rq.district]
                 /\ rq.nIngest = fetchesBeforeQuery(rq)
            /\ rq.pc = "s5ingest" => Len(rq.apiData) > 0
            /\ rq.pc = "requery" =>
                 /\ rq.nIngest = fetchesBeforeQuery(rq) + 1
                 /\ Len(rq.ingested) = rq.nIngest
       /\ (/\ rq.pc = "done"
           /\ rq.resp.kind \in {"noPerformanceData", "data"}
           /\ localMatches(db, rq) = {}) =>
            /\ rq.resp.status = 404 /\ rq.resp.kind = "noPerformanceData"
            /\ rq.nFetch = fetchesBeforeQuery(rq) + 1
            /\ rq.resp.query.state = rq.state /\ rq.resp.query.finYear = rq.finYear
            /\ rq.resp.query.district \in {rq.district, strAll}
            /\ rq.resp.query.month \in {rq.month, strAll}
            /\ rq.resp.suggest = {fallbackYears[1], fallbackYears[2]}

\* the first query of a request for a month was empty, the one call of
\* step 5 returned records that were ingested, the query was repeated and
\* the request was answered 404 with its query
EmptyResultOneBackfillWitness ==
  \E r \in Reqs :
    /\ req[r].pc = "done" /\ req[r].resp.kind = "noPerformanceData"
    /\ req[r].stateLocal /\ req[r].nFetch = 1
    /\ Len(req[r].ingested) = 1 /\ ~req[r].dbFault
    /\ req[r].resp.query.district = strAll /\ req[r].resp.query.month = req[r].month
    /\ localMatches(db, req[r]) = {}

----------------------------------------------------------------------------
(* Further properties of fetchDistrictData (SpecFetch) *)

\* C27: fetchDistrictData changes the cache only when its request to the
\* upstream succeeded and returned at least one record, and then (the
\* transport of the cache working) the entry under the key is the list
\* returned; no entry is an empty list, and a call answered from the cache
\* returns at least one record.
OnlyNonEmptyCached ==
  LET f == lastFetch
      key == cacheKey(f.args)
  IN f.n > 0 =>
       /\ cache # f.before =>
            (f.out.http = 1 /\ ~f.out.threw /\ Len(f.out.records) > 0)
       /\ (f.out.http = 1 /\ ~f.out.threw /\ Len(f.out.records) > 0 /\ f.upSet) =>
            (key \in DOMAIN cache /\ cache[key] = f.out.records)
       /\ \A k \in DOMAIN cache : Len(cache[k]) > 0
       /\ (f.out.http = 0 /\ ~f.out.threw) => Len(f.out.records) > 0

----------------------------------------------------------------------------
(* Properties of generateDistrictCode (SpecCode) *)

\* hash*31 + char without wrapping, for the strings whose hash stays
\* within 31 bits
RECURSIVE plainHash(_, _, _)
plainHash(str, i, h) ==
  IF i > Len(str) THEN h ELSE plainHash(str, i + 1, 31 * h + str[i])

\* Math.abs(hashCode(name)) % 1000: computed without wrapping for the names
\* of up to three letters; for the longer names the remainders of
\* |-2147483648|, 1486072772, |-2139633137| and |-685785664|
expectedSuffix(name) ==
  CASE name = sPolygenelubricants -> 648
    [] name = sTHIRUVANANTHAPURAM -> 772
    [] name = sIDUKKI -> 137
    [] name = sZzzzzz -> 664
    [] OTHER -> plainHash(name, 1, 0) % 1000

\* C28: the code derived from a name and a state code that are not empty
\* is the state code, then the first three letters of the name (the whole
\* name if it is shorter) in upper case, then three decimal digits that
\* read |hash| mod 1000, where hash is the wrapping 32-bit hash of the
\* name, also when the hash leaves 31 bits or is the minimum integer.
DistrictCodeShape ==
  LET g == caller.gen
      k == Len(g.stateCode)
      p == Min(3, Len(g.districtName))
  IN (g.n > 0 /\ Truthy(g.districtName) /\ Truthy(g.stateCode)) =>
       /\ Len(g.code) = k + p + 3
       /\ SubSeq(g.code, 1, k) = g.stateCode
       /\ SubSeq(g.code, k + 1, k + p) = toUpperCase(SubSeq(g.districtName, 1, p))
       /\ \A i \in (k + p + 1)..(k + p + 3) : g.code[i] \in 48..57
       /\ 100 * (g.code[k + p + 1] - 48) + 10 * (g.code[k + p + 2] - 48)
             + (g.code[k + p + 3] - 48) = expectedSuffix(g.districtName)

\* the code of a name whose hash is the minimum 32-bit integer was derived
\* and ends in 648
DistrictCodeShapeWitness ==
  /\ caller.gen.n > 0
  /\ caller.gen.districtName = sPolygenelubricants
  /\ caller.gen.stateCode = <<75,76>>
  /\ caller.gen.code = <<75,76,80,79,76,54,52,56>>

----------------------------------------------------------------------------
(* Properties of getPerformanceGrade (SpecGrade) *)

\* the grades, best first
gradeLetters == <<(<<65>>), (<<66>>), (<<67>>), (<<68>>), (<<69>>)>>

\* the place of a grade among the grades: 1 for A, 5 for E
gradeRank(g) == CHOOSE k \in 1..5 : gradeLetters[k] = g

\* C31: the grade getPerformanceGrade returns for a district is A when
\* the district's score is at least 80, B when at least 60, C when at
\* least 40, D when at least 20 and E otherwise: it is one of the five
\* letters, and of two districts graded one after the other the one with
\* the greater or equal score has the better or equal grade.
GradeThresholds ==
  caller.grd.n > 0 =>
    LET score == calculatePerformanceScore(caller.grd.district)
    IN /\ caller.grd.grade = gradeFor(score)
       /\ Cardinality({k \in 1..5 : gradeLetters[k] = caller.grd.grade}) = 1
       /\ (score >= 80) <=> (caller.grd.grade = <<65>>)
       /\ (score < 20) <=> (caller.grd.grade = <<69>>)
       /\ caller.grd.n > 1 =>
            /\ score >= caller.grd.prev.score =>
                 gradeRank(caller.grd.grade) <= gradeRank(caller.grd.prev.grade)
            /\ score <= caller.grd.prev.score =>
                 gradeRank(caller.grd.grade) >= gradeRank(caller.grd.prev.grade)

\* a district whose score is 79 was graded B and then a district whose
\* score is 80 was graded A
GradeThresholdsWitness ==
  /\ caller.grd.n = 2
  /\ caller.grd.prev.score = 79 /\ caller.grd.prev.grade = <<66>>
  /\ calculatePerformanceScore(caller.grd.district) = 80
  /\ caller.grd.grade = <<65>>

----------------------------------------------------------------------------
(* Further properties of getDistrictData (SpecMonths) *)

\* the record x answers the query of the request rq: its district is a
\* district of the state asked for, the district asked for if one was,
\* and it has the period asked for and the month asked for if one was
answersQuery(x, rq) ==
  /\ \E s \in db.states : \E y \in db.districts :
       /\ s.stateName = toUpperCase(rq.state)
       /\ y.stateCode = s.stateCode
       /\ y.districtCode = x.districtCode
       /\ Truthy(rq.district) => y.districtName = toUpperCase(rq.district)
  /\ x.finYear = rq.finYear
  /\ Truthy(rq.month) => x.month = toUpperCase(rq.month)

\* C32: every record of a 200 response belongs to a district of the state
\* asked for, has the period asked for, the district asked for when one
\* was given and the month asked for, in capitals, when one was given;
\* the records come by month descending, those of one month by
\* modification time descending.
LocalQueryMatches ==
  \A r \in Reqs :
    (req[r].pc = "done" /\ req[r].resp.status = 200)
    => LET data == req[r].resp.data
       IN /\ \A i \in 1..Len(data) : answersQuery(data[i], req[r])
          /\ \A i, j \in 1..Len(data) :
               i < j => \/ CiLess(data[j].month, data[i].month)
                        \/ /\ data[i].month = data[j].month
                           /\ data[i].updated_at >= data[j].updated_at

\* a request for a district and a period without a month was answered
\* with the district's January and then its February, stored later
LocalQueryMatchesWitness ==
  \E r \in Reqs :
    /\ req[r].pc = "done" /\ req[r].resp.status = 200
    /\ Truthy(req[r].district) /\ ~Truthy(req[r].month)
    /\ Len(req[r].resp.data) = 2
    /\ req[r].resp.data[1].month = <<74,65,78>>
    /\ req[r].resp.data[2].month = sFEB
    /\ req[r].resp.data[1].updated_at < req[r].resp.data[2].updated_at

----------------------------------------------------------------------------
(* Further properties of ingestion (SpecRevisions) *)

\* in d each DistrictPerformance row has one DistrictExtendedMetrics row
\* and each DistrictExtendedMetrics row has its DistrictPerformance row
extendedOneToOne(d) ==
  /\ \A x \in d.perfs : Cardinality({e \in d.exts : e.performanceId = x.id}) = 1
  /\ \A e \in d.exts : Cardinality({x \in d.perfs : x.id = e.performanceId}) = 1
  /\ Cardinality(d.exts) = Cardinality(d.perfs)

\* C33: in committed storage, and in what an ingestion is about to
\* commit, every DistrictPerformance row has exactly one
\* DistrictExtendedMetrics row whose performanceId is its id, and every
\* DistrictExtendedMetrics row refers to one DistrictPerformance row.
ExtendedOneToOne ==
  /\ extendedOneToOne(db)
  /\ (tx.open /\ tx.step = "commit") => extendedOneToOne(tx.work)

\* an ingestion committed a batch that revised a stored row, which keeps
\* the extended row it had, and added a row, which got its own
ExtendedOneToOneWitness ==
  /\ caller.outcome = "ok" /\ caller.calls >= 2
  /\ \E y \in caller.before.perfs : \E x, z \in db.perfs :
       /\ x.id = y.id /\ x.completedWorks # y.completedWorks
       /\ \E e \in caller.before.exts : e.performanceId = x.id /\ e \in db.exts
       /\ ~\E w \in caller.before.perfs : w.id = z.id
       /\ \E e \in db.exts : e.performanceId = z.id /\ e \notin caller.before.exts

----------------------------------------------------------------------------
(* Properties of the District table (SpecDistricts) *)

\* C34: no step changes the stateCode of a District row that is stored:
\* the row a district code has after the step has the stateCode the row
\* of that code had before it.
DistrictKeepsState ==
  [][\A x \in db.districts : \A y \in db'.districts :
       y.districtCode = x.districtCode => y.stateCode = x.stateCode]_vars

\* C35: no two District rows of one stateCode have one districtName.
DistrictNameUnique ==
  \A x, y \in db.districts :
    (x.stateCode = y.stateCode /\ x.districtName = y.districtName) => x = y

----------------------------------------------------------------------------
(* Properties of the not-found answers of getDistrictData (SpecMonths) *)

\* C36: when a request is answered 404 with 'No data found for state ...
\* and financial year ...' or with 'No performance data found for the
\* specified criteria', storage holds no DistrictPerformance row of the
\* state, period, district and month of the request.
NotFoundTruthful ==
  \A r \in Reqs :
    ( /\ req[r].pc = "done"
      /\ req[r].resp.status = 404
      /\ req[r].resp.kind \in {"noDataForYear", "noPerformanceData"} )
    => localMatches(db, req[r]) = {}

----------------------------------------------------------------------------
(* Properties of the responses of getDistrictData (SpecAnswers) *)

\* the statuses getDistrictData sends
sentStatuses == {200, 400, 404, 503, 500}

\* the place of a request in the handler: every await of lines 13-339
\* leads to a later place, the fallback loop to its next year
placeOf(rq) ==
  CASE rq.pc = "findState" -> 0
    [] rq.pc = "s2fetch"   -> 1
    [] rq.pc = "s2ingest"  -> 2
    [] rq.pc = "s2refind"  -> 3
    [] rq.pc = "fbfetch"   -> 1 + 2 * rq.fbIdx
    [] rq.pc = "fbingest"  -> 2 + 2 * rq.fbIdx
    [] rq.pc = "fbrefind"  -> 3 + 2 * Len(fallbackYears)
    [] rq.pc = "bwfind"    -> IF rq.ctx = "main" THEN 20 ELSE 27
    [] rq.pc = "bwfetch"   -> IF rq.ctx = "main" THEN 21 ELSE 28
    [] rq.pc = "bwingest"  -> IF rq.ctx = "main" THEN 22 ELSE 29
    [] rq.pc = "bwrefind"  -> IF rq.ctx = "main" THEN 23 ELSE 30
    [] rq.pc = "query"     -> 24
    [] rq.pc = "s5fetch"   -> 25
    [] rq.pc = "s5ingest"  -> 26
    [] rq.pc = "requery"   -> 31
    [] OTHER               -> 32

\* how far the call the request awaits has come: fetchDistrictData at the
\* cache or at the upstream, processAndStoreDataBulk at one of its
\* statements
awaitedOf(r) ==
  IF Fetching(req[r]) THEN (IF req[r].fph = "http" THEN 1 ELSE 0)
  ELSE IF Ingesting(r) /\ tx.open /\ tx.owner = r
  THEN CASE tx.step = "states"      -> 1
         [] tx.step = "districts"   -> 2
         [] tx.step = "finYears"    -> 3
         [] tx.step = "performance" -> 4
         [] tx.step = "extended"    -> 5
         [] tx.step = "commit"      -> 6
         [] OTHER                   -> 7
  ELSE 0

progressOf(r) == 8 * placeOf(req[r]) + awaitedOf(r)

\* the handler of r has a step to take: a lookup, a query or a call of
\* fetchDistrictData that returns or throws, or the statement
\* processAndStoreDataBulk is at
canStep(r) ==
  \/ ENABLED (\/ FindState(r) \/ CacheGet(r) \/ HttpGet(r)
              \/ RefindState(r) \/ RefindStateFallback(r)
              \/ FindDistrict(r) \/ RefindDistrict(r)
              \/ Query(r) \/ Requery(r))
  \/ /\ Ingesting(r)
     /\ \/ ~tx.open
        \/ /\ tx.owner = r
           /\ tx.step \in {"states", "districts", "finYears", "performance",
                           "extended", "commit", "catch"}

\* C37: every request is answered exactly once.  A request the handler
\* has taken is being handled or answered, never dropped; while it is
\* handled it has no response, its handler has a step to take, and every
\* step brings it further through the handler, which has finitely many
\* places, so that it is answered when each awaited call returns or
\* fails; an answered request has one of the statuses 200, 400, 404, 503
\* and 500; and once it is answered its handler does nothing more for
\* it, so that nothing of the request changes until the handler takes the
\* next one.
OneResponse ==
  /\ [](\A r \in Reqs :
         /\ req[r].pc = "idle" <=> req[r].served = 0
         /\ req[r].pc = "done" => req[r].resp.status \in sentStatuses
         /\ req[r].pc # "done" => req[r].resp = noResponse
         /\ Active(req[r]) => canStep(r) /\ progressOf(r) < 8 * 32)
  /\ [][\A r \in Reqs :
          /\ req[r].pc = "done" =>
               \/ req'[r] = req[r]
               \/ req'[r].served = req[r].served + 1
          /\ Active(req[r]) =>
               /\ req'[r].served = req[r].served
               /\ progressOf(r)' > progressOf(r)]_vars

\* a request in which an upstream call was made, records were ingested
\* and a storage lookup threw afterwards was answered 500
OneResponseWitness ==
  \E r \in Reqs :
    /\ req[r].pc = "done" /\ req[r].resp.status = 500
    /\ req[r].dbFault /\ req[r].nFetch >= 1 /\ req[r].nIngest >= 1

----------------------------------------------------------------------------
(* Properties of what getDistrictData does to storage (SpecAnswers) *)

\* the rows of d, each by the key of its table
rowKeys(d) ==
  [states    |-> {x.stateCode : x \in d.states},
   districts |-> {x.districtCode : x \in d.districts},
   finYears  |-> {x.finYear : x \in d.finYears},
   perfs     |-> {x.id : x \in d.perfs},
   exts      |-> {x.id : x \in d.exts}]

\* every row of d is a row of e: none was deleted
keepsRows(d, e) ==
  /\ rowKeys(d).states \subseteq rowKeys(e).states
  /\ rowKeys(d).districts \subseteq rowKeys(e).districts
  /\ rowKeys(d).finYears \subseteq rowKeys(e).finYears
  /\ rowKeys(d).perfs \subseteq rowKeys(e).perfs
  /\ rowKeys(d).exts \subseteq rowKeys(e).exts

\* C38: storage changes only through ingestion of upstream data.  A
\* request calls processAndStoreDataBulk only with a list, not empty, that
\* a call of fetchDistrictData has just returned; the tables change only
\* when the transaction of such a call commits, so that a request whose
\* calls of fetchDistrictData all returned an empty list or threw has
\* made no call of processAndStoreDataBulk and leaves the five tables as
\* they were; and no step, committed or inside a transaction, removes a
\* row of a table.
StorageOnlyByIngestion ==
  /\ [](\A r \in Reqs :
         /\ Ingesting(r) => req[r].apiData # <<>> /\ req[r].fetchOk
         /\ req[r].nIngest = 0 => ~Ingesting(r) /\ req[r].ingested = <<>>)
  /\ [][
         /\ \A r \in Reqs :
            req'[r].nIngest > req[r].nIngest =>
              /\ Fetching(req[r])
              /\ req'[r].nIngest = req[r].nIngest + 1
              /\ Ingesting(r)'
              /\ req'[r].apiData # <<>>
         /\ \A r \in Reqs :
            (req[r].served > 0 /\ req'[r].served = req[r].served
               /\ req'[r].nIngest = 0) => db' = db
         /\ db' # db =>
              /\ tx.open /\ tx.step = "commit" /\ db' = tx.work
              /\ \E r \in Reqs :
                   /\ tx.owner = r /\ Ingesting(r)
                   /\ tx.apiData = req[r].apiData
         /\ keepsRows(db, db')
         /\ (tx.open /\ tx'.open) => keepsRows(tx.work, tx'.work)]_vars

\* the second request of a handler found rows in storage, called
\* fetchDistrictData, which returned an empty list, was answered without
\* a call of processAndStoreDataBulk, and the rows are in storage
StorageOnlyByIngestionWitness ==
  \E r \in Reqs :
    /\ req[r].pc = "done" /\ req[r].served = 2
    /\ req[r].nFetch >= 1 /\ req[r].fetchOk /\ req[r].nIngest = 0
    /\ db.perfs # {} /\ db.exts # {}
====
